---- MODULE Spec2Model ----
(***************************************************************************)
(* Genie CLI session client (ApiSessionClient): the two versioned          *)
(* documents of a session (metadata, agentState), their version-checked    *)
(* read-modify-write updates against the relay, the inbound update-session *)
(* pushes, the connection's connect / disconnect events, and the RPC       *)
(* handler manager (RpcHandlerManager) that announces and runs handlers.   *)
(*                                                                         *)
(* A document value is a set of keys: call c's handler adds key c, the     *)
(* write of another client that makes version n adds key RemoteKey(n).     *)
(* null / undefined is the value NULL.                                     *)
(***************************************************************************)
EXTENDS Integers, Sequences, FiniteSets, TLC

\* Bound of the model: the number of events that start something, counted
\* together: update calls made, writes of other clients accepted by the relay,
\* malformed or value-less payloads sent by the relay, connection drops and
\* failed connection attempts, handler registrations and clearings, inbound
\* rpc-requests.
MaxEvents == 4

Calls == 1..MaxEvents
Kinds == {"metadata", "agentState"}

\* null / undefined (keys are >= 1).
NULL == {0}

RemoteKey(n) == MaxEvents + n

VARIABLES
    metadata,            \* this.metadata
    metadataVersion,     \* this.metadataVersion
    agentState,          \* this.agentState
    agentStateVersion,   \* this.agentStateVersion
    locks,               \* this.metadataLock, this.agentStateLock
    calls,               \* the update calls: kind, position, request, answer
    relay,               \* the relay's authoritative documents
    pushes,              \* update frames sent by the relay, not yet handled; they
                         \* are handled in any order, answers included
    relayForm,           \* how the relay sends a document: JSON text or object
    remoteWrites,        \* writes of other clients accepted so far
    faults,              \* malformed or value-less payloads sent by the relay so far
    enqueued,            \* history: calls in the order they were made
    accepted,            \* history, per kind: calls in the order the relay accepted a write
    remoteLog,           \* history: writes of other clients, [base, key]
    issued,              \* history: the documents the relay has held, [kind,
                         \* version, value]
    trace,               \* history, per call: bases read, adoption, final state,
                         \* whether a write of it failed with the connection
    lastEvent,           \* history: whether the last step handled a stale frame
    connected,           \* socket.connected: the connection is live
    socket,              \* rpcHandlerManager.socket: the live-connection marker
    handlers,            \* rpcHandlerManager.handlers, in insertion order
    requests,            \* the inbound rpc-requests, in the order they arrived
    emitted,             \* history: the rpc-register frames emitted
    responded,           \* history: requests in the order their callback was called
    connection,          \* history: the number of connect events so far
    signals,             \* connection drops, failed connection attempts,
                         \* registrations and clearings so far
    pendingMessages,     \* this.pendingMessages
    pendingMessageCallback, \* this.pendingMessageCallback
    delivered,           \* history: the calls of the consumer callback
    messageEvents,       \* history: the 'message' events emitted by the client
    inbound,             \* history: the message frames handled and the
                         \* onUserMessage calls, in order
    sendBuffer,          \* the socket's buffer of packets emitted while down
    outbound,            \* history: the packets that reached the relay
    sent,                \* history: the calls of the send methods
    scoped,              \* per scope, the handler map of the manager of that scope
    ran,                 \* history: the last request put on the shared
                         \* transport and the handlers it ran
    flushes,             \* the flush calls: promise, ping, timer
    credentials,         \* the stored credentials: none, valid or expired
    machineId,           \* settings.machineId as stored (0: none)
    authLog,             \* history: the calls of authAndSetupMachineIfNeeded
    attempts,            \* the connection attempts that failed since the
                         \* socket was last connected
    active,              \* socket.active: the socket is connected or its
                         \* manager will try to connect
    closed               \* close() has been called

vars == <<metadata, metadataVersion, agentState, agentStateVersion, locks,
          calls, relay, relayForm, pushes, remoteWrites, faults, enqueued,
          accepted, remoteLog, issued, trace, lastEvent, connected, socket, handlers,
          requests, emitted, responded, connection, signals,
          pendingMessages, pendingMessageCallback, delivered, messageEvents,
          inbound, sendBuffer, outbound, sent, scoped, ran, flushes,
          credentials, machineId, authLog, attempts, active, closed>>

docVars == <<metadata, metadataVersion, agentState, agentStateVersion>>
relayVars == <<relay, relayForm, pushes, remoteWrites, remoteLog, issued>>

\* The state of the update calls and of the relay's documents.
syncVars == <<docVars, locks, calls, relayVars, faults, enqueued, accepted,
              trace, lastEvent>>

\* The state of the connection and of the RPC handler manager.
rpcVars == <<connected, socket, handlers, requests, emitted, responded,
             connection, signals>>

\* The state of the inbound message queue, of the outbound sends, and of the
\* managers of several scopes.
msgVars == <<pendingMessages, pendingMessageCallback, delivered, messageEvents,
             inbound>>
sendVars == <<sendBuffer, outbound, sent>>
scopeVars == <<scoped, ran>>
flushVars == <<flushes>>
authVars == <<credentials, machineId, authLog>>
retryVars == <<attempts, active, closed>>
edgeVars == <<msgVars, sendVars, scopeVars, flushVars, authVars, retryVars>>

----------------------------------------------------------------------------
\* Wire payloads. JSON text is the form "str"; an object sent as is, "obj";
\* text that is not JSON, "bad"; an absent field, "none".

NoBody == [form |-> "none", value |-> NULL]

JSONstringify(v) == [form |-> "str", value |-> v]

\* JSON.parse throws on this payload.
ParseThrows(body) == body.form = "bad"

\* typeof x === 'string' ? JSON.parse(x) : x
MetadataOf(body) == IF body.form = "none" THEN NULL ELSE body.value

\* x ? (typeof x === 'string' ? JSON.parse(x) : x) : null
AgentStateOf(body) == IF body.form = "none" THEN NULL ELSE body.value

\* {...value}: the keys of an object; null and undefined have none.
KeysOf(v) == IF v = NULL THEN {} ELSE v

\* The handler passed by call c: (doc) => ({...doc, c: ...}).
Handler(c, v) == KeysOf(v) \cup {c}

NoAnswer == [result |-> "none", version |-> 0, body |-> NoBody]
NoDoc == [version |-> 0, value |-> NULL]
NoPart == [present |-> FALSE, version |-> 0, body |-> NoBody]

NewCall == [kind |-> "none", pc |-> "idle", expectedVersion |-> 0,
            updated |-> NoBody, answer |-> NoAnswer]
NewTrace == [bases |-> {}, adopted |-> NoDoc, isAdopted |-> FALSE, final |-> NoDoc,
             rejected |-> FALSE]

\* History: the step taken last, recorded when it handles an update frame
\* that carries a version not above the local one.
Step == "step"
StaleUpdate == "stale update"

----------------------------------------------------------------------------
\* AsyncLock: one holder, the others wait in the order they asked.

FreeLock == [holder |-> 0, queue |-> <<>>]

\* inLock, on entry: take the lock when it is free, wait in line otherwise.
Lock(l, c) ==
    IF l.holder = 0 THEN [l EXCEPT !.holder = c]
    ELSE [l EXCEPT !.queue = Append(@, c)]

\* inLock, on exit: hand the lock to the first waiter, if any.
Unlock(l) ==
    IF l.queue = <<>> THEN [l EXCEPT !.holder = 0]
    ELSE [holder |-> Head(l.queue), queue |-> Tail(l.queue)]

\* The position of a call that has just asked for lock l.
PcAfterLock(l, c) == IF l.holder = c THEN "running" ELSE "queued"

\* The calls after the holder of lock l has released it: the call is done and
\* the first waiter, if any, runs.
Released(l, c, answer) ==
    [d \in Calls |->
        IF d = c THEN [calls[d] EXCEPT !.pc = "done", !.answer = answer, !.updated = NoBody]
        ELSE IF l.queue # <<>> /\ d = Head(l.queue) THEN [calls[d] EXCEPT !.pc = "running"]
        ELSE calls[d]]

\* The events started so far.
Events ==
    Len(enqueued) + remoteWrites + faults + signals + Len(requests)
    + Len(inbound) + Len(sent) + Len(flushes) + Len(authLog)

\* The session's documents and the update machinery after the constructor.
DocInit ==
    /\ metadata = {}
    /\ metadataVersion = 0
    /\ agentState = NULL
    /\ agentStateVersion = 0
    /\ locks = [metadataLock |-> FreeLock, agentStateLock |-> FreeLock]
    /\ calls = [c \in Calls |-> NewCall]
    /\ relay = [k \in Kinds |-> IF k = "metadata" THEN [version |-> 0, value |-> {}]
                                ELSE [version |-> 0, value |-> NULL]]
    /\ relayForm \in {"obj", "str"}
    /\ pushes = {}
    /\ remoteWrites = 0
    /\ faults = 0
    /\ enqueued = <<>>
    /\ accepted = [k \in Kinds |-> <<>>]
    /\ remoteLog = {}
    /\ issued = {[kind |-> k, version |-> 0,
                  value |-> IF k = "metadata" THEN {} ELSE NULL] : k \in Kinds}
    /\ trace = [c \in Calls |-> NewTrace]
    /\ lastEvent = Step

\* The values of rpcHandlerManager.socket: null, or the client's socket.
NoSocket == "null"
TheSocket == "socket"

\* The RPC handler manager after its constructor: no handler, no traffic.
RpcInit ==
    /\ handlers = <<>>
    /\ requests = <<>>
    /\ emitted = <<>>
    /\ responded = <<>>
    /\ signals = 0

\* No consumer callback: this.pendingMessageCallback is null.
NoConsumer == "null"

\* The message queue after the constructor: empty, no consumer.
MsgInit ==
    /\ pendingMessages = <<>>
    /\ pendingMessageCallback = NoConsumer
    /\ delivered = <<>>
    /\ messageEvents = <<>>
    /\ inbound = <<>>

\* Nothing sent yet.
SendInit ==
    /\ sendBuffer = <<>>
    /\ outbound = <<>>
    /\ sent = <<>>

\* Scope prefixes (session IDs, machine IDs), as strings of characters;
\* an ID holds no colon. One is a prefix of the other.
Scopes == {<<"s">>, <<"s", "x">>}

\* No request yet.
NoRun == [name |-> <<>>, to |-> <<>>, by |-> {}]

\* The managers after their constructors: no handler.
ScopeInit ==
    /\ scoped = [scope \in Scopes |-> <<>>]
    /\ ran = NoRun

\* No flush called yet.
FlushInit == flushes = <<>>

\* What is stored before the first run: credentials or none, a machine ID
\* or none.
StoredCredentials == {"none", "valid", "expired"}

NoMachineId == 0

AuthInit ==
    /\ credentials \in StoredCredentials
    /\ machineId \in {NoMachineId, 1}
    /\ authLog = <<>>

\* The session client is constructed after authAndSetupMachineIfNeeded has
\* returned: credentials and a machine ID are stored.
AuthIdle ==
    /\ credentials = "valid"
    /\ machineId = 1
    /\ authLog = <<>>

\* The socket's manager after io(...) and connect(): no attempt has failed,
\* close() has not been called.
RetryInit ==
    /\ attempts = 0
    /\ active = TRUE
    /\ closed = FALSE

EdgeInit == MsgInit /\ SendInit /\ ScopeInit /\ FlushInit /\ AuthIdle /\ RetryInit

\* The client after its constructor: socket.connect() has been called, the
\* connection is not yet established.
Constructed ==
    /\ DocInit
    /\ RpcInit
    /\ EdgeInit
    /\ connected = FALSE
    /\ socket = NoSocket
    /\ connection = 0

\* The client once that first connection is established.
Init ==
    /\ DocInit
    /\ RpcInit
    /\ EdgeInit
    /\ connected = TRUE
    /\ socket = TheSocket
    /\ connection = 1

----------------------------------------------------------------------------
\* A bug: one lock for both kinds.
sharedLockName == "metadataLock"

\* The lock each kind of update runs under.
metadataLockName == "metadataLock"
agentStateLockName == "agentStateLock"

\* updateMetadata(handler), up to this.metadataLock.inLock: the call takes the
\* lock or waits in line for it. The calls are numbered in the order in which
\* they are made.
EnterLock(name, kind, c) ==
    /\ calls[c].pc = "idle"
    /\ c = Len(enqueued) + 1
    /\ Events < MaxEvents
    /\ locks' = [locks EXCEPT ![name] = Lock(@, c)]
    /\ calls' = [calls EXCEPT ![c] = [@ EXCEPT !.kind = kind,
                                               !.pc = PcAfterLock(locks'[name], c)]]
    /\ enqueued' = Append(enqueued, c)
    /\ lastEvent' = Step
    /\ UNCHANGED <<docVars, relayVars, faults, accepted, trace>>

\* A bug: the update does not go through the lock.
updateMetadataUnlocked(c) ==
    /\ calls[c].pc = "idle"
    /\ c = Len(enqueued) + 1
    /\ Events < MaxEvents
    /\ calls' = [calls EXCEPT ![c] = [@ EXCEPT !.kind = "metadata", !.pc = "running"]]
    /\ enqueued' = Append(enqueued, c)
    /\ lastEvent' = Step
    /\ UNCHANGED <<docVars, locks, relayVars, faults, accepted, trace>>

updateMetadata(c) == EnterLock(metadataLockName, "metadata", c)

updateAgentState(c) == EnterLock(agentStateLockName, "agentState", c)

\* A bug: the version read at the first attempt is sent again at each retry.
MetadataRequestStale(c) ==
    [expectedVersion |-> IF trace[c].bases = {} THEN metadataVersion
                         ELSE calls[c].expectedVersion,
     updated |-> JSONstringify(Handler(c, metadata))]

\* A bug: a retry sends the candidate of the attempt before it again.
MetadataRequestCached(c) ==
    [expectedVersion |-> metadataVersion,
     updated |-> IF trace[c].bases = {} THEN JSONstringify(Handler(c, metadata))
                 ELSE calls[c].updated]

\* The request of one attempt: the handler applied to the local value of this
\* moment, sent with the local version of this moment.
MetadataRequest(c) ==
    [expectedVersion |-> metadataVersion,
     updated |-> JSONstringify(Handler(c, metadata))]

AgentStateRequest(c) ==
    [expectedVersion |-> agentStateVersion,
     updated |-> JSONstringify(Handler(c, agentState))]

\* backoff: the callback runs once the lock is held, and again after each
\* attempt that threw, with no limit on the number of attempts.
backoff(c) == calls[c].pc \in {"running", "delay"}

\* One attempt of the backoff callback, up to the await of emitWithAck.
Attempt(kind, c, request) ==
    /\ calls[c].kind = kind
    /\ backoff(c)
    /\ calls' = [calls EXCEPT ![c] = [@ EXCEPT !.pc = "awaiting",
                                               !.expectedVersion = request.expectedVersion,
                                               !.updated = request.updated,
                                               !.answer = NoAnswer]]
    /\ trace' = [trace EXCEPT ![c].bases = @ \cup {request.expectedVersion}]
    /\ lastEvent' = Step
    /\ UNCHANGED <<docVars, locks, relayVars, faults, enqueued, accepted>>

metadataAttempt(c) == Attempt("metadata", c, MetadataRequest(c))

agentStateAttempt(c) == Attempt("agentState", c, AgentStateRequest(c))

\* A bug: on a version-mismatch the client counts its version up by itself.
MetadataAfterAnswerCounting(answer) ==
    IF answer.result = "success" THEN
        IF ParseThrows(answer.body)
        THEN [value |-> metadata, version |-> metadataVersion, threw |-> TRUE]
        ELSE [value |-> MetadataOf(answer.body), version |-> answer.version, threw |-> FALSE]
    ELSE IF answer.version > metadataVersion THEN
        IF ParseThrows(answer.body)
        THEN [value |-> metadata, version |-> metadataVersion + 1, threw |-> TRUE]
        ELSE [value |-> MetadataOf(answer.body), version |-> metadataVersion + 1, threw |-> TRUE]
    ELSE [value |-> metadata, version |-> metadataVersion, threw |-> TRUE]

\* A bug: on a version-mismatch the client adopts the version and keeps its
\* own value.
MetadataAfterAnswerKeepValue(answer) ==
    IF answer.result = "success" THEN
        IF ParseThrows(answer.body)
        THEN [value |-> metadata, version |-> metadataVersion, threw |-> TRUE]
        ELSE [value |-> MetadataOf(answer.body), version |-> answer.version, threw |-> FALSE]
    ELSE IF answer.version > metadataVersion THEN
        [value |-> metadata, version |-> answer.version, threw |-> TRUE]
    ELSE [value |-> metadata, version |-> metadataVersion, threw |-> TRUE]

\* The local document after the continuation of emitWithAck has run on an
\* answer, and whether the callback threw.
MetadataAfterAnswer(answer) ==
    IF answer.result = "success" THEN
        IF ParseThrows(answer.body)
        THEN [value |-> metadata, version |-> metadataVersion, threw |-> TRUE]
        ELSE [value |-> MetadataOf(answer.body), version |-> answer.version, threw |-> FALSE]
    ELSE IF answer.version > metadataVersion THEN
        \* the version is assigned before the value is parsed
        IF ParseThrows(answer.body)
        THEN [value |-> metadata, version |-> answer.version, threw |-> TRUE]
        ELSE [value |-> MetadataOf(answer.body), version |-> answer.version, threw |-> TRUE]
    ELSE [value |-> metadata, version |-> metadataVersion, threw |-> TRUE]

AgentStateAfterAnswer(answer) ==
    IF answer.result = "success" THEN
        IF ParseThrows(answer.body)
        THEN [value |-> agentState, version |-> agentStateVersion, threw |-> TRUE]
        ELSE [value |-> AgentStateOf(answer.body), version |-> answer.version, threw |-> FALSE]
    ELSE IF answer.version > agentStateVersion THEN
        IF ParseThrows(answer.body)
        THEN [value |-> agentState, version |-> answer.version, threw |-> TRUE]
        ELSE [value |-> AgentStateOf(answer.body), version |-> answer.version, threw |-> TRUE]
    ELSE [value |-> agentState, version |-> agentStateVersion, threw |-> TRUE]

LocalVersion(kind) == IF kind = "metadata" THEN metadataVersion ELSE agentStateVersion

LocalValue(kind) == IF kind = "metadata" THEN metadata ELSE agentState

SetDoc(kind, doc) ==
    IF kind = "metadata"
    THEN /\ metadata' = doc.value
         /\ metadataVersion' = doc.version
         /\ UNCHANGED <<agentState, agentStateVersion>>
    ELSE /\ agentState' = doc.value
         /\ agentStateVersion' = doc.version
         /\ UNCHANGED <<metadata, metadataVersion>>

\* History: whether this answer made the client adopt a newer document.
Adoption(kind, answer) ==
    IF /\ answer.result = "version-mismatch"
       /\ answer.version > LocalVersion(kind)
       /\ answer.body.form \in {"obj", "str"}
    THEN [isAdopted |-> TRUE, adopted |-> [version |-> answer.version, value |-> answer.body.value]]
    ELSE [isAdopted |-> FALSE, adopted |-> NoDoc]

\* An answer once handled: its result and version are kept as history.
Seen(answer) == [answer EXCEPT !.body = NoBody]

\* The continuation of emitWithAck: the answer is applied; a callback that
\* returns ends backoff and inLock (the lock is released), one that throws is
\* retried by backoff after its delay.
Answer(kind, name, c, after) ==
    /\ calls[c].kind = kind
    /\ calls[c].pc = "acked"
    /\ SetDoc(kind, after)
    /\ IF after.threw
       THEN /\ calls' = [calls EXCEPT ![c] = [@ EXCEPT !.pc = "delay", !.answer = Seen(@)]]
            /\ locks' = locks
            /\ trace' = [trace EXCEPT
                    ![c].isAdopted = Adoption(kind, calls[c].answer).isAdopted,
                    ![c].adopted = Adoption(kind, calls[c].answer).adopted]
       ELSE /\ calls' = Released(locks[name], c, Seen(calls[c].answer))
            /\ locks' = [locks EXCEPT ![name] = Unlock(@)]
            /\ trace' = [trace EXCEPT
                    ![c].final = [version |-> after.version, value |-> after.value]]
    /\ lastEvent' = Step
    /\ UNCHANGED <<relayVars, faults, enqueued, accepted>>

\* A bug: the lock is taken per attempt, not around the retry loop: after a
\* failed attempt the call releases it and asks for it again.
metadataAnswerPerAttempt(c) ==
    LET after == MetadataAfterAnswer(calls[c].answer)
        freed == Unlock(locks[metadataLockName])
        again == Lock(freed, c)
    IN
    /\ calls[c].kind = "metadata"
    /\ calls[c].pc = "acked"
    /\ SetDoc("metadata", after)
    /\ IF after.threw
       THEN /\ locks' = [locks EXCEPT ![metadataLockName] = again]
            /\ calls' = [d \in Calls |->
                    IF d = c THEN [calls[d] EXCEPT !.pc = IF again.holder = c THEN "delay" ELSE "queued",
                                                   !.answer = Seen(@)]
                    ELSE IF d = again.holder THEN [calls[d] EXCEPT !.pc = "running"]
                    ELSE calls[d]]
            /\ trace' = trace
       ELSE /\ calls' = Released(locks[metadataLockName], c, Seen(calls[c].answer))
            /\ locks' = [locks EXCEPT ![metadataLockName] = Unlock(@)]
            /\ trace' = [trace EXCEPT
                    ![c].final = [version |-> after.version, value |-> after.value]]
    /\ lastEvent' = Step
    /\ UNCHANGED <<relayVars, faults, enqueued, accepted>>

metadataAnswer(c) ==
    Answer("metadata", metadataLockName, c, MetadataAfterAnswer(calls[c].answer))

agentStateAnswer(c) ==
    Answer("agentState", agentStateLockName, c, AgentStateAfterAnswer(calls[c].answer))

----------------------------------------------------------------------------
\* socket.on('update'), the update-session frames: each document is replaced
\* when the frame carries a version above the local one.

\* A bug: the frame's version is not compared with the local one.
MetadataAfterPushUnchecked(part) ==
    IF part.present /\ ~ParseThrows(part.body)
    THEN [value |-> MetadataOf(part.body), version |-> part.version]
    ELSE [value |-> metadata, version |-> metadataVersion]

MetadataAfterPush(part) ==
    IF part.present /\ part.version > metadataVersion /\ ~ParseThrows(part.body)
    THEN [value |-> MetadataOf(part.body), version |-> part.version]
    ELSE [value |-> metadata, version |-> metadataVersion]

\* A bug: the agentState part is checked against the metadata version.
AgentStateAfterPushSharedVersion(part) ==
    IF part.present /\ part.version > metadataVersion /\ ~ParseThrows(part.body)
    THEN [value |-> AgentStateOf(part.body), version |-> part.version]
    ELSE [value |-> agentState, version |-> agentStateVersion]

AgentStateAfterPush(part) ==
    IF part.present /\ part.version > agentStateVersion /\ ~ParseThrows(part.body)
    THEN [value |-> AgentStateOf(part.body), version |-> part.version]
    ELSE [value |-> agentState, version |-> agentStateVersion]

\* History: the frame carries a part whose version is not above the local one.
IsStale(p) ==
    \/ p.metadata.present /\ p.metadata.version <= metadataVersion
    \/ p.agentState.present /\ p.agentState.version <= agentStateVersion

onUpdate(p) ==
    /\ p \in pushes
    /\ pushes' = pushes \ {p}
    /\ metadata' = MetadataAfterPush(p.metadata).value
    /\ metadataVersion' = MetadataAfterPush(p.metadata).version
    /\ agentState' = AgentStateAfterPush(p.agentState).value
    /\ agentStateVersion' = AgentStateAfterPush(p.agentState).version
    /\ lastEvent' = IF IsStale(p) THEN StaleUpdate ELSE Step
    /\ UNCHANGED <<locks, calls, relay, relayForm, remoteWrites, remoteLog, issued,
                   faults, enqueued, accepted, trace>>

----------------------------------------------------------------------------
\* The relay: the authority for both documents and their versions.

WellFormed == {"obj", "str"}

\* The forms a payload of the relay can take: its own form, or a malformed or
\* value-less one, which counts as an event.
Faulty(form, events) ==
    IF form = relayForm THEN faults' = faults
    ELSE form \notin WellFormed /\ events < MaxEvents /\ faults' = faults + 1

Wire(form, value) ==
    IF value = NULL \/ form = "none" THEN NoBody ELSE [form |-> form, value |-> value]

\* The relay handles the conditional write of call c, which reaches it over a
\* live connection: it accepts a write whose expectedVersion is its version, and answers the rest version-mismatch
\* with its version and, unless form is "none", its value.
RelayAnswer(c, form) ==
    LET k == calls[c].kind
        doc == relay[k]
        next == [version |-> doc.version + 1, value |-> calls[c].updated.value]
    IN
    /\ connected
    /\ calls[c].pc = "awaiting"
    /\ Faulty(form, Events)
    /\ IF calls[c].expectedVersion = doc.version
       THEN /\ form # "none"
            /\ relay' = [relay EXCEPT ![k] = next]
            /\ issued' = issued \cup {[kind |-> k, version |-> next.version,
                                        value |-> next.value]}
            /\ accepted' = [accepted EXCEPT ![k] = Append(@, c)]
            /\ calls' = [calls EXCEPT ![c] = [@ EXCEPT !.pc = "acked",
                    !.answer = [result |-> "success", version |-> next.version,
                                body |-> Wire(form, next.value)]]]
       ELSE /\ relay' = relay
            /\ issued' = issued
            /\ accepted' = accepted
            /\ calls' = [calls EXCEPT ![c] = [@ EXCEPT !.pc = "acked",
                    !.answer = [result |-> "version-mismatch", version |-> doc.version,
                                body |-> Wire(form, doc.value)]]]
    /\ lastEvent' = Step
    /\ UNCHANGED <<docVars, locks, relayForm, pushes, remoteWrites, remoteLog,
                   enqueued, trace>>

\* Another client of the relay changes document k; the relay pushes the new
\* document to this client in an update-session frame when this client is
\* connected.
RemoteWrite(k, form) ==
    LET doc == relay[k]
        key == RemoteKey(doc.version + 1)
        next == [version |-> doc.version + 1, value |-> KeysOf(doc.value) \cup {key}]
        part == [present |-> TRUE, version |-> next.version, body |-> Wire(form, next.value)]
    IN
    /\ Events < MaxEvents
    /\ form # "none"
    /\ Faulty(form, Events + 1)
    /\ remoteWrites' = remoteWrites + 1
    /\ relay' = [relay EXCEPT ![k] = next]
    /\ pushes' = IF connected
                 THEN pushes \cup
                        {[metadata |-> IF k = "metadata" THEN part ELSE NoPart,
                          agentState |-> IF k = "agentState" THEN part ELSE NoPart]}
                 ELSE pushes
    /\ remoteLog' = remoteLog \cup {[kind |-> k, base |-> doc.version, key |-> key]}
    /\ issued' = issued \cup {[kind |-> k, version |-> next.version, value |-> next.value]}
    /\ lastEvent' = Step
    /\ UNCHANGED <<docVars, locks, calls, relayForm, enqueued, accepted, trace>>

Forms == {"obj", "str", "bad", "none"}

\* The document synchronisation: the update calls, the update frames, the
\* relay; the connection stays up and the RPC handler manager is left alone.
Next ==
    \/ \E c \in Calls : updateMetadata(c) /\ UNCHANGED <<rpcVars, edgeVars>>
    \/ \E c \in Calls : updateAgentState(c) /\ UNCHANGED <<rpcVars, edgeVars>>
    \/ \E c \in Calls : metadataAttempt(c) /\ UNCHANGED <<rpcVars, edgeVars>>
    \/ \E c \in Calls : agentStateAttempt(c) /\ UNCHANGED <<rpcVars, edgeVars>>
    \/ \E c \in Calls : metadataAnswer(c) /\ UNCHANGED <<rpcVars, edgeVars>>
    \/ \E c \in Calls : agentStateAnswer(c) /\ UNCHANGED <<rpcVars, edgeVars>>
    \/ \E p \in pushes : onUpdate(p) /\ UNCHANGED <<rpcVars, edgeVars>>
    \/ \E c \in Calls, form \in Forms : RelayAnswer(c, form) /\ UNCHANGED <<rpcVars, edgeVars>>
    \/ \E k \in Kinds, form \in Forms : RemoteWrite(k, form) /\ UNCHANGED <<rpcVars, edgeVars>>

Spec == Init /\ [][Next]_vars

\* The steps of the update calls once made: attempts, the relay's answers,
\* the continuations.
Progress ==
    /\ UNCHANGED <<rpcVars, edgeVars>>
    /\ \E c \in Calls :
        \/ metadataAttempt(c)
        \/ agentStateAttempt(c)
        \/ metadataAnswer(c)
        \/ agentStateAnswer(c)
        \/ \E form \in Forms : RelayAnswer(c, form)

\* The relay stays reachable and answers the writes; the client's timers and
\* continuations run: while such a step is possible, one is taken.
Fairness == WF_vars(Progress)

FairSpec == Spec /\ Fairness

----------------------------------------------------------------------------
\* RpcHandlerManager: the handler map, the announcements, the dispatch of the
\* inbound rpc-requests.
\*
\* A JavaScript value is a record: a data object, a string (a wire text, a
\* record [form, value]) or undefined. A handler is named by what it does.

\* Strings are sequences of characters here, so that the concatenation of
\* prefix, colon and method is the concatenation the code makes.
scopePrefix == <<"s">>

Methods == {<<"m">>, <<"n">>}

\* A bug: prefix and method are joined without the colon.
PrefixedMethodNoColon(scope, method) == scope \o method

\* `${scope}:${method}`
PrefixedMethod(scope, method) == scope \o <<":">> \o method

\* `${this.scopePrefix}:${method}`
getPrefixedMethod(method) == PrefixedMethod(scopePrefix, method)

\* The method names an rpc-request can carry: the prefixed names and a name
\* of another scope.
OtherScopeMethod == PrefixedMethod(<<"o">>, <<"m">>)

RequestMethods == {getPrefixedMethod(m) : m \in Methods} \cup {OtherScopeMethod}

Undefined == [form |-> "undefined", value |-> [data |-> 0]]

ParamValue == [data |-> 1]

\* request.params: the JSON text of a value, or text that is not JSON.
Params == {JSONstringify(ParamValue), [form |-> "bad", value |-> [data |-> 2]]}

\* What a handler does with its argument: return it, return nothing, throw
\* (or reject with) an Error, throw (or reject with) a value that is no Error.
Behaviours == {"returns", "returnsNothing", "throws", "throwsOther"}

HandlerMessage == "handler failed"

HandlerOutcome(h, given) ==
    CASE h = "returns" -> [ok |-> TRUE, value |-> given, isError |-> FALSE]
      [] h = "returnsNothing" -> [ok |-> TRUE, value |-> Undefined, isError |-> FALSE]
      [] h = "throws" -> [ok |-> FALSE, value |-> Undefined, isError |-> TRUE]
      [] OTHER -> [ok |-> FALSE, value |-> Undefined, isError |-> FALSE]

\* Map: has, get, set (a key that is present keeps its place).
Has(map, key) == \E i \in 1..Len(map) : map[i].method = key

Get(map, key) == map[CHOOSE i \in 1..Len(map) : map[i].method = key].handler

MapSet(map, key, h) ==
    IF Has(map, key)
    THEN [i \in 1..Len(map) |->
            IF map[i].method = key THEN [method |-> key, handler |-> h] ELSE map[i]]
    ELSE Append(map, [method |-> key, handler |-> h])

MapKeys(map) == {map[i].method : i \in 1..Len(map)}

\* socket.emit('rpc-register', {method}): the frame goes out on the live
\* connection; emitted while the socket is down it is buffered by the socket
\* and goes out on the next connection.
Frame(key) ==
    [method |-> key, connection |-> IF connected THEN connection ELSE connection + 1]

\* A bug: registerHandler announces without looking at the marker.
AfterRegisterAlwaysEmits(method, handler) ==
    [handlers |-> MapSet(handlers, getPrefixedMethod(method), handler),
     emitted |-> Append(emitted, Frame(getPrefixedMethod(method)))]

\* registerHandler: the handler is stored under the prefixed name and, when
\* the marker is set, announced.
AfterRegister(method, handler) ==
    [handlers |-> MapSet(handlers, getPrefixedMethod(method), handler),
     emitted |-> IF socket # NoSocket
                 THEN Append(emitted, Frame(getPrefixedMethod(method)))
                 ELSE emitted]

registerHandler(method, handler) ==
    /\ Events < MaxEvents
    /\ handlers' = AfterRegister(method, handler).handlers
    /\ emitted' = AfterRegister(method, handler).emitted
    /\ signals' = signals + 1
    /\ UNCHANGED <<connected, socket, requests, responded, connection>>
    /\ UNCHANGED syncVars

clearHandlers ==
    /\ Events < MaxEvents
    /\ handlers' = <<>>
    /\ signals' = signals + 1
    /\ UNCHANGED <<connected, socket, requests, emitted, responded, connection>>
    /\ UNCHANGED syncVars

\* A bug: the replay on connect leaves out the handler registered last.
AfterSocketConnectShort ==
    [socket |-> TheSocket,
     emitted |-> emitted \o [i \in 1..(Len(handlers) - 1) |-> Frame(handlers[i].method)]]

\* onSocketConnect: the marker is set and every handler of the map is
\* announced.
AfterSocketConnect ==
    [socket |-> TheSocket,
     emitted |-> emitted \o [i \in 1..Len(handlers) |-> Frame(handlers[i].method)]]

\* socket.on('connect'): the connection is established; reconnection is
\* automatic.
onConnect ==
    /\ ~connected
    /\ connected' = TRUE
    /\ connection' = connection + 1
    /\ socket' = AfterSocketConnect.socket
    /\ emitted' = AfterSocketConnect.emitted
    /\ UNCHANGED <<handlers, requests, responded, signals>>
    /\ UNCHANGED syncVars

\* A bug: the disconnect empties the handler map.
AfterSocketDisconnectClearing == [socket |-> NoSocket, handlers |-> <<>>]

\* A bug: the disconnect leaves the marker set.
AfterSocketDisconnectKeepsMarker == [socket |-> socket, handlers |-> handlers]

\* onSocketDisconnect: the marker is cleared.
AfterSocketDisconnect == [socket |-> NoSocket, handlers |-> handlers]

\* A bug: the rejection of emitWithAck is swallowed inside the callback, which
\* then returns as if the write had been answered.
AckRejectedSwallowed(call) == [call EXCEPT !.pc = "done", !.answer = NoAnswer]

\* The emitWithAck of a write whose acknowledgement will never come rejects
\* when the connection drops; nothing in the callback catches the rejection,
\* so the callback throws and backoff retries it after its delay.
AckRejected(call) == [call EXCEPT !.pc = "delay", !.answer = NoAnswer]

\* socket.on('disconnect'): the connection has dropped. The writes sent and
\* not yet answered, or answered with the answer still on its way, fail; the
\* update frames on their way are lost.
onDisconnect ==
    /\ connected
    /\ Events < MaxEvents
    /\ connected' = FALSE
    /\ socket' = AfterSocketDisconnect.socket
    /\ handlers' = AfterSocketDisconnect.handlers
    /\ signals' = signals + 1
    /\ calls' = [c \in Calls |->
            IF calls[c].pc \in {"awaiting", "acked"} THEN AckRejected(calls[c])
            ELSE calls[c]]
    /\ trace' = [c \in Calls |->
            IF calls[c].pc \in {"awaiting", "acked"} THEN [trace[c] EXCEPT !.rejected = TRUE]
            ELSE trace[c]]
    /\ pushes' = {}
    /\ lastEvent' = Step
    /\ UNCHANGED <<requests, emitted, responded, connection>>
    /\ UNCHANGED <<docVars, locks, relay, relayForm, remoteWrites, remoteLog, issued,
                   faults, enqueued, accepted>>

\* socket.on('connect_error'): an attempt to connect has failed.
onConnectError ==
    /\ ~connected
    /\ Events < MaxEvents
    /\ socket' = AfterSocketDisconnect.socket
    /\ handlers' = AfterSocketDisconnect.handlers
    /\ signals' = signals + 1
    /\ UNCHANGED <<connected, requests, emitted, responded, connection>>
    /\ UNCHANGED syncVars

----------------------------------------------------------------------------
\* handleRequest.

NoResponse == [form |-> "none", value |-> [data |-> 0]]

\* JSON.stringify({ error: message })
ErrorPayload(message) == JSONstringify([error |-> message])

IsErrorPayload(response) ==
    response.form = "str" /\ "error" \in DOMAIN response.value

MethodNotFound == "Method not found"
UnknownError == "Unknown error"
LengthOfUndefined == "Cannot read properties of undefined (reading 'length')"

\* JSON.stringify(result): undefined has no JSON text, the result is undefined.
Stringify(v) == IF v = Undefined THEN Undefined ELSE JSONstringify(v)

\* A bug: the params are handed over as they came, never parsed.
ParamsOfRaw(params) == params

\* try { params = JSON.parse(request.params) } catch { params = request.params }
ParamsOf(params) == IF ParseThrows(params) THEN params ELSE params.value

\* A bug: the handler is called without the lookup being checked; calling
\* undefined throws a TypeError, which the catch turns into its message.
DispatchUnchecked(method, params) ==
    IF ~Has(handlers, method)
    THEN [method |-> method, params |-> params, handler |-> "none", pc |-> "responded",
          given |-> Undefined, response |-> ErrorPayload("handler is not a function")]
    ELSE [method |-> method, params |-> params, handler |-> Get(handlers, method),
          pc |-> "pending", given |-> ParamsOf(params), response |-> NoResponse]

\* handleRequest up to the await of the handler's result: a method that is
\* not in the map is answered at once, otherwise the handler is called with
\* the params.
Dispatch(method, params) ==
    IF ~Has(handlers, method)
    THEN [method |-> method, params |-> params, handler |-> "none", pc |-> "responded",
          given |-> Undefined, response |-> ErrorPayload(MethodNotFound)]
    ELSE [method |-> method, params |-> params, handler |-> Get(handlers, method),
          pc |-> "pending", given |-> ParamsOf(params), response |-> NoResponse]

\* handleRequest from the handler's result on: the result is turned into JSON
\* text; whatever is thrown on the way is caught and answered as an error
\* payload. response.length throws when JSON.stringify returned undefined.
ResponseOf(outcome) ==
    IF ~outcome.ok
    THEN ErrorPayload(IF outcome.isError THEN HandlerMessage ELSE UnknownError)
    ELSE IF Stringify(outcome.value) = Undefined
    THEN ErrorPayload(LengthOfUndefined)
    ELSE Stringify(outcome.value)

\* A bug: what the handler throws is not caught, handleRequest rejects.
SettleUncaught(request) ==
    IF HandlerOutcome(request.handler, request.given).ok
    THEN [request EXCEPT !.pc = "responded",
                         !.response = ResponseOf(HandlerOutcome(request.handler, request.given))]
    ELSE [request EXCEPT !.pc = "rejected"]

\* The handler's result is there: handleRequest resolves.
Settle(request) ==
    [request EXCEPT !.pc = "responded",
                    !.response = ResponseOf(HandlerOutcome(request.handler, request.given))]

\* A bug: a request is taken up only when no handler is pending.
rpcRequestOneAtATime(method, params) ==
    /\ connected
    /\ Events < MaxEvents
    /\ \A i \in 1..Len(requests) : requests[i].pc # "pending"
    /\ requests' = Append(requests, Dispatch(method, params))
    /\ responded' = IF Dispatch(method, params).pc = "responded"
                    THEN Append(responded, Len(requests) + 1)
                    ELSE responded
    /\ UNCHANGED <<connected, socket, handlers, emitted, connection, signals>>
    /\ UNCHANGED syncVars

\* socket.on('rpc-request'): an rpc-request arrives over the live connection;
\* the callback is called once handleRequest has resolved.
rpcRequest(method, params) ==
    /\ connected
    /\ Events < MaxEvents
    /\ requests' = Append(requests, Dispatch(method, params))
    /\ responded' = IF Dispatch(method, params).pc = "responded"
                    THEN Append(responded, Len(requests) + 1)
                    ELSE responded
    /\ UNCHANGED <<connected, socket, handlers, emitted, connection, signals>>
    /\ UNCHANGED syncVars

\* A bug: what the handler throws escapes handleRequest, and the listener's
\* callback is never called.
handlerSettlesUncaught(i) ==
    /\ requests[i].pc = "pending"
    /\ requests' = [requests EXCEPT ![i] = SettleUncaught(@)]
    /\ responded' = IF SettleUncaught(requests[i]).pc = "responded"
                    THEN Append(responded, i)
                    ELSE responded
    /\ UNCHANGED <<connected, socket, handlers, emitted, connection, signals>>
    /\ UNCHANGED syncVars

\* The handler of request i returns, throws, resolves or rejects.
handlerSettles(i) ==
    /\ requests[i].pc = "pending"
    /\ requests' = [requests EXCEPT ![i] = Settle(@)]
    /\ responded' = IF Settle(requests[i]).pc = "responded"
                    THEN Append(responded, i)
                    ELSE responded
    /\ UNCHANGED <<connected, socket, handlers, emitted, connection, signals>>
    /\ UNCHANGED syncVars

\* The connection and the RPC handler manager.
RpcNext ==
    \/ \E m \in Methods, h \in Behaviours : registerHandler(m, h) /\ UNCHANGED edgeVars
    \/ clearHandlers /\ UNCHANGED edgeVars
    \/ onConnect /\ UNCHANGED edgeVars
    \/ onDisconnect /\ UNCHANGED edgeVars
    \/ onConnectError /\ UNCHANGED edgeVars
    \/ \E m \in RequestMethods, params \in Params :
            rpcRequest(m, params) /\ UNCHANGED edgeVars
    \/ \E i \in 1..Len(requests) : handlerSettles(i) /\ UNCHANGED edgeVars

RpcSpec == Constructed /\ [][RpcNext]_vars

\* The handlers terminate: while one is pending, one eventually settles.
Terminates ==
    WF_vars(\E i \in 1..Len(requests) : handlerSettles(i) /\ UNCHANGED edgeVars)

FairRpcSpec == RpcSpec /\ Terminates

----------------------------------------------------------------------------
\* Managers of several scopes on one transport: each keeps its own handler
\* map; a request put on the transport is given to every manager.

\* Unprefixed method names; a name may hold a colon.
ScopeMethods == {<<"m">>, <<"x", "m">>, <<"x", ":", "m">>}

\* The handler function a manager registers for a method.
HandlerOf(scope, method) == [owner |-> scope, name |-> method]

\* registerHandler of the manager of a scope.
scopedRegister(scope, method) ==
    /\ scoped' = [scoped EXCEPT ![scope] =
                    MapSet(@, PrefixedMethod(scope, method), HandlerOf(scope, method))]
    /\ UNCHANGED ran

\* A request addressed to a method of a scope: handleRequest of every manager
\* looks the full name up in its own map and runs what it finds.
scopedRequest(scope, method) ==
    /\ ran' = [name |-> PrefixedMethod(scope, method),
               to |-> scope,
               by |-> {Get(scoped[s], PrefixedMethod(scope, method)) :
                        s \in {t \in Scopes :
                                Has(scoped[t], PrefixedMethod(scope, method))}}]
    /\ UNCHANGED scoped

ScopeNext ==
    \/ \E scope \in Scopes, m \in ScopeMethods :
            scopedRegister(scope, m) /\ UNCHANGED <<syncVars, rpcVars, msgVars, sendVars, flushVars, authVars, retryVars>>
    \/ \E scope \in Scopes, m \in ScopeMethods :
            scopedRequest(scope, m) /\ UNCHANGED <<syncVars, rpcVars, msgVars, sendVars, flushVars, authVars, retryVars>>

ScopeSpec == Constructed /\ [][ScopeNext]_vars

----------------------------------------------------------------------------
\* The inbound messages: the update handler's routes other than
\* update-session, the queue of user messages and its consumer.

\* The consumer callbacks handed to onUserMessage; one of them throws
\* whenever it is called.
Consumers == {"cb1", "cb2", "faulty"}

ConsumerThrows(callback) == callback = "faulty"

\* A message payload {role, content, meta}; the number tells the payloads
\* apart.
Roles == {"user", "agent"}

Payload(role, n) == [role |-> role, id |-> n]

\* UserMessageSchema.safeParse(body).success
IsUserMessage(body) == body.role = "user"

\* data.body.message.content: the payload itself, or the legacy wrapper
\* {t: 'encrypted', c} whose c is the JSON text of the payload or text that
\* is not JSON.
Direct(payload) == [t |-> "plain", c |-> [form |-> "obj", value |-> payload]]

Wrapped(payload) == [t |-> "encrypted", c |-> JSONstringify(payload)]

BadWrapped(payload) == [t |-> "encrypted", c |-> [form |-> "bad", value |-> payload]]

Contents(n) ==
    UNION {{Direct(Payload(r, n)), Wrapped(Payload(r, n)), BadWrapped(Payload(r, n))} :
            r \in Roles}

\* data.body of the update frames handled here: none, a new-message, an
\* update-machine, a body of another type.
BodyTypes == {"none", "new-message", "update-machine", "other"}

Bodies(n) ==
    {[t |-> "new-message", content |-> content] : content \in Contents(n)}
    \cup {[t |-> type, content |-> Direct(Payload("agent", n))] :
            type \in BodyTypes \ {"new-message"}}

\* A bug: the wrapper is not opened, its c is taken as the body.
UnwrapUnparsed(content) ==
    IF content.t = "encrypted"
    THEN [ok |-> TRUE, body |-> content.c]
    ELSE [ok |-> TRUE, body |-> content.c.value]

\* The body of a new-message: JSON.parse(content.c) for the wrapper, skipped
\* when that throws; the content itself otherwise.
Unwrap(content) ==
    IF content.t = "encrypted"
    THEN IF ParseThrows(content.c)
         THEN [ok |-> FALSE, body |-> content.c]
         ELSE [ok |-> TRUE, body |-> content.c.value]
    ELSE [ok |-> TRUE, body |-> content.c.value]

\* The queue, the consumer calls and the 'message' events as they are.
Untouched ==
    [pendingMessages |-> pendingMessages, delivered |-> delivered,
     messageEvents |-> messageEvents]

\* A bug: a user message is queued and also emitted as a 'message' event.
AfterNewMessageAlsoEmits(content) ==
    LET body == Unwrap(content).body IN
    IF ~Unwrap(content).ok
    THEN Untouched
    ELSE IF "role" \in DOMAIN body /\ IsUserMessage(body)
    THEN [Untouched EXCEPT !.pendingMessages = Append(@, body),
                           !.messageEvents = Append(@, body)]
    ELSE [Untouched EXCEPT !.messageEvents = Append(@, body)]

\* A bug: a wrapper that cannot be parsed is emitted as a 'message' event.
AfterNewMessageEmitsBad(content) ==
    LET body == Unwrap(content).body IN
    IF ~Unwrap(content).ok
    THEN [Untouched EXCEPT !.messageEvents = Append(@, content)]
    ELSE IF "role" \in DOMAIN body /\ IsUserMessage(body)
    THEN IF pendingMessageCallback # NoConsumer
         THEN [Untouched EXCEPT !.delivered =
                    Append(@, [to |-> pendingMessageCallback, message |-> body])]
         ELSE [Untouched EXCEPT !.pendingMessages = Append(@, body)]
    ELSE [Untouched EXCEPT !.messageEvents = Append(@, body)]

\* A bug: a user message is handed to every consumer attached so far.
AfterNewMessageFanOut(content) ==
    LET body == Unwrap(content).body
        attached == SelectSeq(inbound, LAMBDA e : e.t = "onUserMessage")
    IN
    IF ~Unwrap(content).ok
    THEN Untouched
    ELSE IF "role" \in DOMAIN body /\ IsUserMessage(body)
    THEN IF pendingMessageCallback # NoConsumer
         THEN [Untouched EXCEPT !.delivered =
                    @ \o [i \in 1..Len(attached) |->
                            [to |-> attached[i].content, message |-> body]]]
         ELSE [Untouched EXCEPT !.pendingMessages = Append(@, body)]
    ELSE [Untouched EXCEPT !.messageEvents = Append(@, body)]

\* The new-message branch: a user message goes to the consumer if there is
\* one (what the consumer throws is caught by the handler), to the queue
\* otherwise; any other body is emitted as a 'message' event.
AfterNewMessage(content) ==
    LET body == Unwrap(content).body IN
    IF ~Unwrap(content).ok
    THEN Untouched
    ELSE IF "role" \in DOMAIN body /\ IsUserMessage(body)
    THEN IF pendingMessageCallback # NoConsumer
         THEN [Untouched EXCEPT !.delivered =
                    Append(@, [to |-> pendingMessageCallback, message |-> body])]
         ELSE [Untouched EXCEPT !.pendingMessages = Append(@, body)]
    ELSE [Untouched EXCEPT !.messageEvents = Append(@, body)]

\* The update handler on a frame that is no update-session.
AfterBody(body) ==
    CASE body.t = "none" -> Untouched
      [] body.t = "new-message" -> AfterNewMessage(body.content)
      [] body.t = "update-machine" -> Untouched
      [] OTHER -> [Untouched EXCEPT !.messageEvents = Append(@, body)]

\* socket.on('update') with a frame that is no update-session.
onUpdateBody(body) ==
    /\ connected
    /\ Events < MaxEvents
    /\ inbound' = Append(inbound, body)
    /\ pendingMessages' = AfterBody(body).pendingMessages
    /\ delivered' = AfterBody(body).delivered
    /\ messageEvents' = AfterBody(body).messageEvents
    /\ UNCHANGED pendingMessageCallback

\* The number of callback calls the drain makes: all the queue, or one when
\* the callback throws.
Drained(callback) ==
    IF pendingMessages # <<>> /\ ConsumerThrows(callback) THEN 1 ELSE Len(pendingMessages)

\* A bug: the queue is drained from its end.
onUserMessageReversed(callback) ==
    /\ Events < MaxEvents
    /\ inbound' = Append(inbound, [t |-> "onUserMessage", content |-> callback])
    /\ pendingMessageCallback' = callback
    /\ delivered' = delivered \o
            [i \in 1..Len(pendingMessages) |->
                [to |-> callback,
                 message |-> pendingMessages[Len(pendingMessages) + 1 - i]]]
    /\ pendingMessages' = <<>>
    /\ UNCHANGED messageEvents

\* onUserMessage(callback)
onUserMessage(callback) ==
    /\ Events < MaxEvents
    /\ inbound' = Append(inbound, [t |-> "onUserMessage", content |-> callback])
    /\ pendingMessageCallback' = callback
    /\ delivered' = delivered \o
            [i \in 1..Drained(callback) |->
                [to |-> callback, message |-> pendingMessages[i]]]
    /\ pendingMessages' = SubSeq(pendingMessages, Drained(callback) + 1,
                                 Len(pendingMessages))
    /\ UNCHANGED messageEvents

\* The frames of the update handler and the consumer, over a live connection.
MsgNext ==
    \/ \E body \in Bodies(Len(inbound) + 1) :
            onUpdateBody(body) /\ UNCHANGED <<syncVars, rpcVars, sendVars, scopeVars, flushVars, authVars, retryVars>>
    \/ \E callback \in Consumers :
            onUserMessage(callback) /\ UNCHANGED <<syncVars, rpcVars, sendVars, scopeVars, flushVars, authVars, retryVars>>
    \/ \E k \in Kinds, form \in Forms : RemoteWrite(k, form) /\ UNCHANGED <<rpcVars, edgeVars>>
    \/ \E p \in pushes : onUpdate(p) /\ UNCHANGED <<rpcVars, edgeVars>>

MsgSpec == Init /\ [][MsgNext]_vars

----------------------------------------------------------------------------
\* The outbound sends. A call is known by its place in the history of calls;
\* the packets it emits carry that number.

Packet(event, n) == [event |-> event, id |-> n, connection |-> 0]

\* The packets as they reach the relay on a connection.
Delivered(packets, n) == [i \in 1..Len(packets) |-> [packets[i] EXCEPT !.connection = n]]

\* socket.emit: the packet goes out on the live connection; while the socket
\* is not connected it is kept in the socket's send buffer.
Emit(packets) ==
    IF connected
    THEN [sendBuffer |-> sendBuffer, outbound |-> outbound \o Delivered(packets, connection)]
    ELSE [sendBuffer |-> sendBuffer \o packets, outbound |-> outbound]

\* A bug: the keepalive is emitted like any other packet.
VolatileEmitBuffered(packets) == Emit(packets)

\* socket.volatile.emit: the packet goes out on the live connection and is
\* discarded while the socket is not connected.
VolatileEmit(packets) ==
    IF connected
    THEN [sendBuffer |-> sendBuffer, outbound |-> outbound \o Delivered(packets, connection)]
    ELSE [sendBuffer |-> sendBuffer, outbound |-> outbound]

\* The bodies sendClaudeSessionMessage tells apart: an assistant message
\* with usage, a summary, anything else.
ClaudeBodies == {"user", "assistant", "summary"}

\* The call is recorded with the state of the connection at that moment.
Called(method) == sent' = Append(sent, [method |-> method, live |-> connected])

\* sendClaudeSessionMessage: returns when the socket is not connected;
\* otherwise emits the message, then reports the usage of an assistant
\* message and sets the summary of a summary message in the metadata.
sendClaudeSessionMessage(body) ==
    /\ Events < MaxEvents
    /\ Called("sendClaudeSessionMessage")
    /\ IF ~connected
       THEN UNCHANGED <<sendBuffer, outbound, syncVars>>
       ELSE /\ sendBuffer' = sendBuffer
            /\ outbound' = outbound \o
                    Delivered(IF body = "assistant"
                              THEN <<Packet("message", Len(sent) + 1),
                                     Packet("usage-report", Len(sent) + 1)>>
                              ELSE <<Packet("message", Len(sent) + 1)>>, connection)
            /\ IF body = "summary"
               THEN \E c \in Calls : updateMetadata(c)
               ELSE UNCHANGED syncVars

\* sendCodexMessage: returns when the socket is not connected.
sendCodexMessage ==
    /\ Events < MaxEvents
    /\ Called("sendCodexMessage")
    /\ IF ~connected
       THEN UNCHANGED <<sendBuffer, outbound>>
       ELSE /\ sendBuffer' = Emit(<<Packet("message", Len(sent) + 1)>>).sendBuffer
            /\ outbound' = Emit(<<Packet("message", Len(sent) + 1)>>).outbound

\* The sends that emit without looking at the connection.
Emitting(method, event) ==
    /\ Events < MaxEvents
    /\ Called(method)
    /\ sendBuffer' = Emit(<<Packet(event, Len(sent) + 1)>>).sendBuffer
    /\ outbound' = Emit(<<Packet(event, Len(sent) + 1)>>).outbound

sendAgentMessage == Emitting("sendAgentMessage", "message")

sendSessionEvent == Emitting("sendSessionEvent", "message")

sendUsageData == Emitting("sendUsageData", "usage-report")

\* keepAlive(thinking, mode)
keepAlive ==
    /\ Events < MaxEvents
    /\ Called("keepAlive")
    /\ sendBuffer' = VolatileEmit(<<Packet("session-alive", Len(sent) + 1)>>).sendBuffer
    /\ outbound' = VolatileEmit(<<Packet("session-alive", Len(sent) + 1)>>).outbound

\* On connect the socket sends what its send buffer holds.
Flush ==
    /\ outbound' = outbound \o Delivered(sendBuffer, connection + 1)
    /\ sendBuffer' = <<>>
    /\ UNCHANGED sent

\* The sends over a connection that drops and comes back.
SendNext ==
    \/ \E body \in ClaudeBodies :
            sendClaudeSessionMessage(body) /\ UNCHANGED <<rpcVars, msgVars, scopeVars, flushVars, authVars, retryVars>>
    \/ sendCodexMessage /\ UNCHANGED <<syncVars, rpcVars, msgVars, scopeVars, flushVars, authVars, retryVars>>
    \/ sendAgentMessage /\ UNCHANGED <<syncVars, rpcVars, msgVars, scopeVars, flushVars, authVars, retryVars>>
    \/ sendSessionEvent /\ UNCHANGED <<syncVars, rpcVars, msgVars, scopeVars, flushVars, authVars, retryVars>>
    \/ sendUsageData /\ UNCHANGED <<syncVars, rpcVars, msgVars, scopeVars, flushVars, authVars, retryVars>>
    \/ keepAlive /\ UNCHANGED <<syncVars, rpcVars, msgVars, scopeVars, flushVars, authVars, retryVars>>
    \/ onConnect /\ Flush /\ UNCHANGED <<msgVars, scopeVars, flushVars, authVars, retryVars>>
    \/ onDisconnect /\ UNCHANGED edgeVars

SendSpec == Constructed /\ [][SendNext]_vars

----------------------------------------------------------------------------
\* The update-session frames, with frames that carry both documents.

\* The relay sends this client an update-session frame carrying both
\* documents as they are at the relay.
RelaySnapshot(form) ==
    LET part(k) == [present |-> TRUE, version |-> relay[k].version,
                    body |-> Wire(form, relay[k].value)]
        frame == [metadata |-> part("metadata"), agentState |-> part("agentState")]
    IN
    /\ connected
    /\ form # "none"
    /\ frame \notin pushes
    /\ Faulty(form, Events)
    /\ pushes' = pushes \cup {frame}
    /\ lastEvent' = Step
    /\ UNCHANGED <<docVars, locks, calls, relay, relayForm, remoteWrites, remoteLog, issued,
                   enqueued, accepted, trace>>

PushNext ==
    \/ \E k \in Kinds, form \in Forms : RemoteWrite(k, form) /\ UNCHANGED <<rpcVars, edgeVars>>
    \/ \E form \in Forms : RelaySnapshot(form) /\ UNCHANGED <<rpcVars, edgeVars>>
    \/ \E p \in pushes : onUpdate(p) /\ UNCHANGED <<rpcVars, edgeVars>>
    \/ \E body \in {b \in Bodies(Len(inbound) + 1) : b.t = "none"} :
            onUpdateBody(body) /\ UNCHANGED <<syncVars, rpcVars, sendVars, scopeVars, flushVars, authVars, retryVars>>

PushSpec == Init /\ [][PushNext]_vars

----------------------------------------------------------------------------
\* flush: a ping with an acknowledgement callback and a timer of 10 s, each
\* of which resolves the promise.

\* flush on a socket that is not connected: the promise is resolved at once.
Returned ==
    [pc |-> "resolved", by |-> "return", connection |-> 0, ping |-> "none",
     timer |-> "none"]

\* resolve(): settles a pending promise; a promise already resolved stays as
\* it is.
Resolve(f, by) == IF f.pc = "pending" THEN [f EXCEPT !.pc = "resolved", !.by = by] ELSE f

\* A bug: no timer is set, only the acknowledgement resolves the promise.
flushNoTimer ==
    /\ Events < MaxEvents
    /\ flushes' = Append(flushes,
            IF ~connected THEN Returned
            ELSE [pc |-> "pending", by |-> "none", connection |-> connection,
                  ping |-> "sent", timer |-> "none"])

\* flush()
flush ==
    /\ Events < MaxEvents
    /\ flushes' = Append(flushes,
            IF ~connected THEN Returned
            ELSE [pc |-> "pending", by |-> "none", connection |-> connection,
                  ping |-> "sent", timer |-> "armed"])

\* The relay's acknowledgement of the ping of flush i arrives, over the
\* connection the ping was sent on: the callback resolves.
pingAck(i) ==
    /\ connected
    /\ flushes[i].ping = "sent"
    /\ flushes[i].connection = connection
    /\ flushes' = [flushes EXCEPT ![i] = Resolve([@ EXCEPT !.ping = "acked"], "ack")]

\* The timer of flush i fires: the callback resolves.
timerFires(i) ==
    /\ flushes[i].timer = "armed"
    /\ flushes' = [flushes EXCEPT ![i] = Resolve([@ EXCEPT !.timer = "fired"], "timer")]

FlushNext ==
    \/ flush /\ UNCHANGED <<syncVars, rpcVars, msgVars, sendVars, scopeVars, authVars, retryVars>>
    \/ \E i \in 1..Len(flushes) :
            pingAck(i) /\ UNCHANGED <<syncVars, rpcVars, msgVars, sendVars, scopeVars, authVars, retryVars>>
    \/ \E i \in 1..Len(flushes) :
            timerFires(i) /\ UNCHANGED <<syncVars, rpcVars, msgVars, sendVars, scopeVars, authVars, retryVars>>
    \/ onConnect /\ UNCHANGED edgeVars
    \/ onDisconnect /\ UNCHANGED edgeVars

FlushSpec == Constructed /\ [][FlushNext]_vars

\* A timer that is set fires.
Timers ==
    WF_vars(\E i \in 1..Len(flushes) :
                timerFires(i)
                /\ UNCHANGED <<syncVars, rpcVars, msgVars, sendVars, scopeVars, authVars, retryVars>>)

FairFlushSpec == FlushSpec /\ Timers

----------------------------------------------------------------------------
\* Reconnection: the socket's manager tries again after an attempt that
\* fails and after a connection that drops, until reconnectionAttempts
\* attempts have failed in a row; it does not try again once the relay has
\* refused or ended the connection itself, or close() was called.

\* Infinity: more than any number of attempts.
Infinity == MaxEvents + 1

\* reconnectionAttempts: Infinity
reconnectionAttempts == Infinity

\* The reasons the disconnect event is raised with when the program has not
\* closed the socket, and the two kinds of connect_error: the connection
\* could not be established, or the relay refused it.
DropReasons == {"io server disconnect", "ping timeout", "transport close"}
ConnectErrors == {"transport", "refused"}

\* The manager is trying to connect.
Reconnecting == ~connected /\ active /\ attempts < reconnectionAttempts

\* An attempt succeeds: the connect listener runs.
attemptSucceeds ==
    /\ Reconnecting
    /\ onConnect
    /\ attempts' = 0
    /\ UNCHANGED <<active, closed>>

\* An attempt fails: the connect_error listener runs, which logs and clears
\* the marker; the manager schedules the next attempt unless the relay
\* refused the connection.
attemptFails(error) ==
    /\ Reconnecting
    /\ onConnectError
    /\ attempts' = attempts + 1
    /\ active' = (error = "transport")
    /\ UNCHANGED closed

\* The connection drops: the disconnect listener runs, which logs the
\* reason and clears the marker; the manager starts to reconnect unless the
\* relay ended the connection.
connectionDrops(reason) ==
    /\ ~closed
    /\ onDisconnect
    /\ active' = (reason # "io server disconnect")
    /\ UNCHANGED <<attempts, closed>>

\* close(): socket.close() disconnects the socket, if it is connected, and
\* ends the reconnection.
close ==
    /\ ~closed
    /\ closed' = TRUE
    /\ active' = FALSE
    /\ attempts' = 0
    /\ IF connected THEN onDisconnect ELSE UNCHANGED <<syncVars, rpcVars>>

RetryNext ==
    \/ attemptSucceeds /\ UNCHANGED <<msgVars, sendVars, scopeVars, flushVars, authVars>>
    \/ \E error \in ConnectErrors :
            attemptFails(error)
            /\ UNCHANGED <<msgVars, sendVars, scopeVars, flushVars, authVars>>
    \/ \E reason \in DropReasons :
            connectionDrops(reason)
            /\ UNCHANGED <<msgVars, sendVars, scopeVars, flushVars, authVars>>
    \/ close /\ UNCHANGED <<msgVars, sendVars, scopeVars, flushVars, authVars>>
    \/ \E m \in Methods, h \in Behaviours :
            registerHandler(m, h) /\ UNCHANGED edgeVars

RetrySpec == Constructed /\ [][RetryNext]_vars

\* The relay becomes reachable again: while the manager keeps trying, an
\* attempt eventually succeeds.
Reachable ==
    WF_vars(attemptSucceeds /\ UNCHANGED <<msgVars, sendVars, scopeVars, flushVars, authVars>>)

FairRetrySpec == RetrySpec /\ Reachable

----------------------------------------------------------------------------
\* Authentication and machine setup.

\* What refreshAccessToken, writeCredentials and doAuth can do.
RefreshOutcomes == {"tokens", "throws"}
WriteOutcomes == {"written", "throws"}
LoginOutcomes == {"credentials", "null", "throws"}

\* The try block of the refresh completes: the tokens were obtained and
\* the new credentials were written.
Refreshed(refresh, write) == refresh = "tokens" /\ write = "written"

\* doAuth is called: no credentials are stored, or the stored token has
\* expired and the refresh or the write of its result threw.
CallsDoAuth(refresh, write) ==
    \/ credentials = "none"
    \/ credentials = "expired" /\ ~Refreshed(refresh, write)

\* randomUUID(): an ID that no run has produced and that was not stored.
RandomUUID == Len(authLog) + 2

\* A bug: the updateSettings callback replaces the machine ID in every run.
MachineIdAfterAlwaysNew(newAuth) == RandomUUID

\* The updateSettings callback.
MachineIdAfter(newAuth) ==
    IF newAuth \/ machineId = NoMachineId THEN RandomUUID ELSE machineId

\* authAndSetupMachineIfNeeded()
authAndSetupMachineIfNeeded(refresh, write, login) ==
    LET doAuth == CallsDoAuth(refresh, write)
        threw == doAuth /\ login # "credentials"
        newAuth == doAuth /\ login = "credentials"
    IN
    /\ Events < MaxEvents
    /\ credentials' = IF threw THEN credentials ELSE "valid"
    /\ machineId' = IF threw THEN machineId ELSE MachineIdAfter(newAuth)
    /\ authLog' = Append(authLog,
            [stored |-> credentials,
             refreshed |-> credentials = "expired" /\ Refreshed(refresh, write),
             login |-> IF doAuth THEN login ELSE "none",
             threw |-> threw])

\* The access token passes its expiry time.
tokenExpires ==
    /\ credentials = "valid"
    /\ credentials' = "expired"
    /\ UNCHANGED <<machineId, authLog>>

\* genie auth logout, confirmed: the directory that holds the credentials
\* and the settings is removed.
handleAuthLogout ==
    /\ credentials # "none"
    /\ credentials' = "none"
    /\ machineId' = NoMachineId
    /\ UNCHANGED authLog

AuthNext ==
    \/ \E refresh \in RefreshOutcomes, write \in WriteOutcomes, login \in LoginOutcomes :
            authAndSetupMachineIfNeeded(refresh, write, login)
            /\ UNCHANGED <<syncVars, rpcVars, msgVars, sendVars, scopeVars, flushVars, retryVars>>
    \/ tokenExpires
            /\ UNCHANGED <<syncVars, rpcVars, msgVars, sendVars, scopeVars, flushVars, retryVars>>
    \/ handleAuthLogout
            /\ UNCHANGED <<syncVars, rpcVars, msgVars, sendVars, scopeVars, flushVars, retryVars>>

\* The process before any client is constructed, with whatever is stored.
AuthStart ==
    /\ DocInit
    /\ RpcInit
    /\ MsgInit
    /\ SendInit
    /\ ScopeInit
    /\ FlushInit
    /\ AuthInit
    /\ RetryInit
    /\ connected = FALSE
    /\ socket = NoSocket
    /\ connection = 0

AuthSpec == AuthStart /\ [][AuthNext]_vars

\* The document synchronisation over a connection that drops and comes back
\* (a failed connection attempt changes nothing here).
ConnNext ==
    \/ Next
    \/ onConnect /\ UNCHANGED edgeVars
    \/ onDisconnect /\ UNCHANGED edgeVars

ConnSpec == Constructed /\ [][ConnNext]_vars

\* The socket reconnects by itself (reconnection: true, reconnectionAttempts:
\* Infinity): while the connection is down, it is eventually established.
Reconnects == WF_vars(onConnect /\ UNCHANGED edgeVars)

FairConnSpec == ConnSpec /\ Fairness /\ Reconnects

\* The whole client.
ClientNext == Next \/ RpcNext

ClientSpec == Constructed /\ [][ClientNext]_vars

----------------------------------------------------------------------------
\* C1: for each document, the local version never decreases from one state
\* to the next, whatever the order in which write answers and inbound
\* update-session frames arrive.
C1_VersionNeverDecreases ==
    [][/\ metadataVersion' >= metadataVersion
       /\ agentStateVersion' >= agentStateVersion]_vars

----------------------------------------------------------------------------
\* The versions the relay has on the wire for a document: in the answers not
\* yet handled and in the update frames not yet handled.
Carried(kind) ==
    {calls[c].answer.version : c \in {d \in Calls : calls[d].kind = kind /\ calls[d].pc = "acked"}}
    \cup {p[kind].version : p \in {q \in pushes : q[kind].present}}

\* C2: metadataVersion and agentStateVersion change only by being assigned a
\* version carried in a write answer or an inbound frame of the relay; the
\* client never computes a version itself.
C2_VersionOnlyFromRelay ==
    [][/\ metadataVersion' # metadataVersion => metadataVersion' \in Carried("metadata")
       /\ agentStateVersion' # agentStateVersion => agentStateVersion' \in Carried("agentState")]_vars

\* A version-mismatch answer has just made the client adopt the version it
\* carries, more than one above the version sent.
C2_Witness ==
    \E c \in Calls :
        /\ calls[c].pc = "delay"
        /\ calls[c].answer.result = "version-mismatch"
        /\ calls[c].answer.version > calls[c].expectedVersion + 1
        /\ LocalVersion(calls[c].kind) = calls[c].answer.version

\* The calls that are inside their retry loop, under the lock.
InLoop(c) == calls[c].pc \in {"running", "awaiting", "acked", "delay"}

\* The place of a call in the order in which the calls were made.
Pos(c) == CHOOSE i \in 1..Len(enqueued) : enqueued[i] = c

Made(c) == calls[c].pc # "idle"

Before(c, d) == Made(c) /\ Made(d) /\ Pos(c) < Pos(d)

\* C3: per document kind, at most one call is inside its retry loop (so at
\* most one conditional write is outstanding), and a later call makes its
\* first attempt only after every earlier call of the kind has finished with
\* an accepted write.
C3_OneMutationInFlight ==
    /\ \A k \in Kinds :
            Cardinality({c \in Calls : calls[c].kind = k /\ InLoop(c)}) <= 1
    /\ \A c, d \in Calls :
            /\ Before(c, d)
            /\ calls[c].kind = calls[d].kind
            /\ InLoop(d) \/ calls[d].pc = "done"
            => /\ calls[c].pc = "done"
               /\ calls[c].answer.result = "success"

\* Two overlapping calls of one kind: the first is retrying after a failed
\* attempt while the second waits for the lock.
C3_Witness ==
    \E c, d \in Calls :
        /\ Before(c, d)
        /\ calls[c].kind = calls[d].kind
        /\ calls[c].pc = "delay"
        /\ calls[d].pc = "queued"

C5_CommitInCallOrder ==
    \A k \in Kinds : \A i, j \in 1..Len(accepted[k]) :
        i < j => Pos(accepted[k][i]) <= Pos(accepted[k][j])

\* Two calls of one kind have both been accepted, the first after more than
\* one attempt, while the second was already waiting.
C5_Witness ==
    \E c, d \in Calls :
        /\ Before(c, d)
        /\ calls[c].kind = calls[d].kind
        /\ Cardinality(trace[c].bases) >= 2
        /\ calls[c].pc = "done"
        /\ calls[d].pc = "done"

\* C6: the two kinds have separate locks: a call that waits for its lock
\* waits for a call of its own kind, never for one of the other kind.
C6_SeparateLocks ==
    \A c \in Calls :
        calls[c].pc = "queued"
        => \E d \in Calls : d # c /\ calls[d].kind = calls[c].kind /\ InLoop(d)

\* While a metadata update holds its lock and is retrying, an agent-state
\* update made after it has been accepted and has finished; and the same
\* with the kinds exchanged.
C6_Witness ==
    \E c, d \in Calls :
        /\ Before(c, d)
        /\ calls[c].kind = "metadata"
        /\ calls[c].pc = "delay"
        /\ calls[d].kind = "agentState"
        /\ calls[d].pc = "done"

\* C7: a write answered version-mismatch with a newer version w and a value
\* makes the client adopt both; the next attempt expects at least w, and when
\* it is sent with expectedVersion w and accepted, the call ends with the
\* local version equal to the accepted version and the local value equal to
\* the handler's change merged onto the version-w value.
C7_MismatchThenSuccess ==
    \A c \in Calls :
        /\ (calls[c].pc \in {"awaiting", "acked", "done"} /\ trace[c].isAdopted)
            => calls[c].expectedVersion >= trace[c].adopted.version
        /\ (/\ calls[c].pc = "done"
            /\ trace[c].isAdopted
            /\ calls[c].expectedVersion = trace[c].adopted.version)
            => trace[c].final = [version |-> calls[c].answer.version,
                                 value |-> KeysOf(trace[c].adopted.value) \cup {c}]

\* Scenario A: a call has finished after a version-mismatch that carried a
\* newer document with the key of another client.
C7_Witness ==
    \E c \in Calls :
        /\ calls[c].kind = "metadata"
        /\ calls[c].pc = "done"
        /\ trace[c].isAdopted
        /\ calls[c].expectedVersion = trace[c].adopted.version
        /\ trace[c].adopted.value # {}
        /\ trace[c].final.version = trace[c].adopted.version + 1

\* C8: when a local write sent against base version v races a write of
\* another client that also builds on v, then once the update has completed
\* the local document holds both changes and its version is above v and above
\* the version of the push.
C8_NoLostUpdate ==
    \A c \in Calls : \A r \in remoteLog :
        /\ calls[c].pc = "done"
        /\ r.kind = calls[c].kind
        /\ r.base \in trace[c].bases
        => /\ {r.key, c} \subseteq trace[c].final.value
           /\ trace[c].final.version > r.base + 1

\* C9: a step that handles an update frame changes a local document only if
\* the frame carries, for that document, a version above the local one.
C9_PushOnlyIfNewer ==
    [][\A p \in pushes \ pushes' :
        /\ ~(p.metadata.present /\ p.metadata.version > metadataVersion)
            => UNCHANGED <<metadata, metadataVersion>>
        /\ ~(p.agentState.present /\ p.agentState.version > agentStateVersion)
            => UNCHANGED <<agentState, agentStateVersion>>]_vars

\* A frame whose version is not above the local one has just been handled
\* while a write is in flight.
C9_Witness ==
    /\ lastEvent = StaleUpdate
    /\ \E c \in Calls : calls[c].pc \in {"awaiting", "acked"}

\* C10: with the relay reachable and the other clients' writes coming to an
\* end, every update call that was made is eventually accepted: from some
\* moment on every call made has finished.
C10_EventuallyAccepted ==
    <>[](\A c \in Calls : calls[c].pc \in {"idle", "done"})

\* A call has finished after attempts with different expected versions.
C10_Witness ==
    \E c \in Calls :
        /\ calls[c].kind = "agentState"
        /\ calls[c].pc = "done"
        /\ Cardinality(trace[c].bases) >= 2

----------------------------------------------------------------------------
\* C11: a conditional write in flight when the connection drops fails, is
\* retried and, the connection coming back, is accepted, and the lock of its
\* kind is released: from some moment on every update call made has finished
\* with an accepted write, the calls that waited behind it included.
C11_DroppedWriteRetried ==
    <>[](\A c \in Calls :
            Made(c) => calls[c].pc = "done" /\ calls[c].answer.result = "success")

\* A write of a call failed with the connection while a second call of the
\* kind was waiting for the lock; both calls have finished.
C11_Witness ==
    \E c, d \in Calls :
        /\ Before(c, d)
        /\ calls[c].kind = calls[d].kind
        /\ trace[c].rejected
        /\ calls[c].pc = "done"
        /\ calls[d].pc = "done"
        /\ Cardinality(trace[d].bases) = 1

----------------------------------------------------------------------------
\* C12: the continuation that handles a version-mismatch answer carrying no
\* document value leaves the local value of that document as it was (and the
\* attempt is retried).
C12_ValueLessMismatchKeepsValue ==
    [][\A c \in Calls :
        /\ calls[c].pc = "acked"
        /\ calls[c].answer.result = "version-mismatch"
        /\ calls[c].answer.body.form = "none"
        /\ calls'[c].pc = "delay"
        => /\ calls[c].kind = "metadata" => metadata' = metadata
           /\ calls[c].kind = "agentState" => agentState' = agentState]_vars

----------------------------------------------------------------------------
\* The number of rpc-register frames for a method that went out on
\* connection n.
Announced(frames, key, n) ==
    Cardinality({i \in 1..Len(frames) :
                    frames[i] = [method |-> key, connection |-> n]})

\* C13: the step that establishes a connection announces every handler of
\* the map exactly once on the new connection: when it is over, each
\* registered method has one rpc-register frame on that connection, no more
\* and no less.
C13_ReplayExactlyOnce ==
    [][(~connected /\ connected')
        => \A key \in MapKeys(handlers) : Announced(emitted', key, connection') = 1]_vars

\* Two handlers were announced on the first connection; the connection has
\* dropped and come back, and both are announced on the second one.
C13_Witness ==
    /\ connected
    /\ connection = 2
    /\ Len(handlers) = 2
    /\ \A key \in MapKeys(handlers) :
            Announced(emitted, key, 1) = 1 /\ Announced(emitted, key, 2) = 1

\* The frames emitted by the step.
NewFrames == {emitted'[i] : i \in (Len(emitted) + 1)..Len(emitted')}

\* C14: registerHandler stores the handler under the prefixed name; it emits
\* one rpc-register frame for it at once if and only if the connection is
\* live. While the connection is down nothing is emitted, and the step that
\* establishes the next connection announces the handler.
C14_RegisterAnnouncesWhenLive ==
    [][/\ \A m \in Methods, h \in Behaviours :
            registerHandler(m, h)
            => /\ Has(handlers', getPrefixedMethod(m))
               /\ Get(handlers', getPrefixedMethod(m)) = h
               /\ emitted' = IF connected
                             THEN Append(emitted, [method |-> getPrefixedMethod(m),
                                                   connection |-> connection])
                             ELSE emitted
       /\ (~connected /\ ~connected') => emitted' = emitted
       /\ (~connected /\ connected')
            => \A key \in MapKeys(handlers) :
                    [method |-> key, connection |-> connection'] \in NewFrames]_vars

\* The connection is down after having been up; of the two handlers in the
\* map, the one registered while it was down has not been announced.
C14_Witness ==
    /\ ~connected
    /\ connection = 1
    /\ Len(handlers) = 2
    /\ Len(emitted) = 1

\* C15: a disconnect or connect_error event clears the marker and leaves the
\* handler map as it was, emitting nothing; the step that establishes the
\* next connection leaves the map as it is and announces its handlers.
C15_DisconnectKeepsHandlers ==
    [][/\ ((connected /\ ~connected') \/ onConnectError)
            => /\ socket' = NoSocket
               /\ handlers' = handlers
               /\ emitted' = emitted
       /\ (~connected /\ connected')
            => /\ socket' = TheSocket
               /\ handlers' = handlers
               /\ MapKeys(handlers) = {f.method : f \in NewFrames}]_vars

\* One registration and one drop: the handler announced on the first
\* connection is announced again on the second.
C15_Witness ==
    /\ connected
    /\ connection = 2
    /\ signals = 2
    /\ Len(handlers) = 1
    /\ Announced(emitted, handlers[1].method, 1) = 1
    /\ Announced(emitted, handlers[1].method, 2) = 1

----------------------------------------------------------------------------
\* The request the step has just taken in.
Arrived == requests'[Len(requests')]

\* C16: an rpc-request whose method has no entry in the handler map is
\* answered with the JSON text of {error: "Method not found"}: handleRequest
\* resolves, no handler is called and the handler map stays as it was.
C16_MethodNotFound ==
    [][\A m \in RequestMethods, params \in Params :
        rpcRequest(m, params) /\ ~Has(handlers, m)
        => /\ Arrived.pc = "responded"
           /\ Arrived.response = JSONstringify([error |-> MethodNotFound])
           /\ Arrived.handler = "none"
           /\ responded' = Append(responded, Len(requests'))
           /\ handlers' = handlers]_vars

\* With a handler registered, a request for a method of another scope and a
\* request for the prefixed name of an unregistered method have been answered.
C16_Witness ==
    /\ Len(handlers) = 1
    /\ \E i, j \in 1..Len(requests) :
            /\ requests[i].method = OtherScopeMethod
            /\ requests[j].method \in {getPrefixedMethod(m) : m \in Methods}
            /\ requests[i].handler = "none"
            /\ requests[j].handler = "none"
            /\ requests[i].pc = "responded"
            /\ requests[j].pc = "responded"

Failing == {"throws", "throwsOther"}

\* C17: when the handler of a request throws or rejects, handleRequest still
\* resolves, with the JSON text of {error: message} (the Error's message, or
\* "Unknown error" for a value that is no Error); the step changes neither
\* the handler map nor the connection nor any other request.
C17_HandlerFaultContained ==
    /\ [](\A i \in 1..Len(requests) :
            /\ requests[i].pc # "rejected"
            /\ (requests[i].pc = "responded" /\ requests[i].handler \in Failing)
                => requests[i].response =
                        JSONstringify([error |-> IF requests[i].handler = "throws"
                                                 THEN HandlerMessage ELSE UnknownError]))
    /\ [][\A i \in 1..Len(requests) :
            handlerSettles(i) /\ requests[i].handler \in Failing
            => /\ UNCHANGED <<handlers, connected, socket, emitted>>
               /\ UNCHANGED syncVars
               /\ \A j \in 1..Len(requests) : j # i => requests'[j] = requests[j]]_vars

\* A handler has failed while another request was pending; the failure has
\* been answered and the other request too, after it.
C17_Witness ==
    \E i, j \in 1..Len(requests) :
        /\ requests[i].handler \in Failing
        /\ requests[j].handler = "returns"
        /\ responded = <<i, j>>

----------------------------------------------------------------------------
Succeeding == {"returns", "returnsNothing"}

\* C18: when the handler of a request completes without failing, the
\* response is a JSON text, it is no error payload, and when the handler
\* returned a value it is the JSON text of that value.
C18_ResultEncoded ==
    \A i \in 1..Len(requests) :
        requests[i].pc = "responded" /\ requests[i].handler \in Succeeding
        => /\ requests[i].response.form = "str"
           /\ ~IsErrorPayload(requests[i].response)
           /\ requests[i].handler = "returns"
                => requests[i].response = JSONstringify(requests[i].given)

\* The params a request carries, as the handler is to get them.
Parsed(params) == IF params.form = "str" THEN params.value ELSE params

\* C19: the handler is given the parsed value when request.params is JSON
\* text and the params as they came otherwise; params that are not JSON make
\* handleRequest neither reject nor answer with an error payload: a handler
\* that returns its argument gets that argument back as the response.
C19_ParamsParsedOrRaw ==
    \A i \in 1..Len(requests) :
        requests[i].handler # "none"
        => /\ requests[i].given = Parsed(requests[i].params)
           /\ requests[i].pc # "rejected"
           /\ (requests[i].pc = "responded" /\ requests[i].handler = "returns")
                => /\ requests[i].response = JSONstringify(Parsed(requests[i].params))
                   /\ ~IsErrorPayload(requests[i].response)

\* A handler that returns its argument has answered a request with JSON
\* params and a request whose params are not JSON.
C19_Witness ==
    \E i, j \in 1..Len(requests) :
        /\ requests[i].handler = "returns"
        /\ requests[j].handler = "returns"
        /\ requests[i].params.form = "str"
        /\ requests[j].params.form = "bad"
        /\ requests[i].pc = "responded"
        /\ requests[j].pc = "responded"

----------------------------------------------------------------------------
Pending == {i \in 1..Len(requests) : requests[i].pc = "pending"}

\* C20: while the handler of an rpc-request is pending, the client can still
\* take every other step: handle an update frame that has arrived, run the
\* continuation of a write whose answer has arrived, take in a further
\* rpc-request, and answer any other request whose handler is done. Only the
\* pending request's own response waits for its handler.
C20_SlowHandlerBlocksNothing ==
    Pending # {}
    => /\ \A p \in pushes : ENABLED (onUpdate(p) /\ UNCHANGED <<rpcVars, edgeVars>>)
       /\ \A c \in Calls :
            calls[c].pc = "acked"
            => ENABLED ((metadataAnswer(c) \/ agentStateAnswer(c)) /\ UNCHANGED <<rpcVars, edgeVars>>)
       /\ (connected /\ Events < MaxEvents)
            => \A m \in RequestMethods, params \in Params : ENABLED rpcRequest(m, params)
       /\ \A j \in Pending : ENABLED handlerSettles(j)

\* A request is pending; a request that arrived after it has been answered,
\* and the answer to a conditional write has arrived and can be handled.
C20_Witness ==
    \E i, j \in 1..Len(requests) :
        /\ i < j
        /\ requests[i].pc = "pending"
        /\ requests[j].pc = "responded"
        /\ requests[j].handler # "none"
        /\ \E c \in Calls : calls[c].pc = "acked"

----------------------------------------------------------------------------
\* The number of times the callback of request i has been called.
Callbacks(i) == Cardinality({k \in 1..Len(responded) : responded[k] = i})

\* C21: the callback of an rpc-request is never called twice, and every
\* rpc-request that has arrived, whether its handler is missing, fails or
\* returns, has its callback called eventually.
C21_CallbackExactlyOnce ==
    /\ [](\A i \in 1..MaxEvents : Callbacks(i) <= 1)
    /\ \A i \in 1..MaxEvents : (Len(requests) >= i) ~> (Callbacks(i) = 1)

\* Two requests have been answered once each: one whose method has no
\* handler, one whose handler threw.
C21_Witness ==
    \E i, j \in 1..Len(requests) :
        /\ requests[i].handler = "none"
        /\ requests[j].handler = "throws"
        /\ Callbacks(i) = 1
        /\ Callbacks(j) = 1

----------------------------------------------------------------------------
\* C22: every key of a manager's handler map is that manager's scope, a
\* colon and a method name; a request runs a handler only if its full name
\* is the key the handler is stored under; so a request addressed to one
\* scope runs no handler registered by the manager of another scope.
C22_ScopesIsolated ==
    /\ \A scope \in Scopes : \A i \in 1..Len(scoped[scope]) :
            \E m \in ScopeMethods :
                /\ scoped[scope][i].method = PrefixedMethod(scope, m)
                /\ scoped[scope][i].handler = HandlerOf(scope, m)
    /\ \A h \in ran.by :
            /\ PrefixedMethod(h.owner, h.name) = ran.name
            /\ h.owner = ran.to

\* Both managers have registered the same unprefixed name, and a request
\* addressed to the first scope has run the first manager's handler only.
C22_Witness ==
    /\ \A scope \in Scopes : Has(scoped[scope], PrefixedMethod(scope, <<"m">>))
    /\ ran.to = <<"s">>
    /\ ran.by = {HandlerOf(<<"s">>, <<"m">>)}

----------------------------------------------------------------------------
\* An entry of the inbound history that is a frame carrying a user message,
\* directly or in a wrapper that parses.
Carries(e) ==
    /\ e.t = "new-message"
    /\ e.content.c.form # "bad"
    /\ e.content.c.value.role = "user"

\* The position of the first onUserMessage call.
FirstAttach ==
    IF \E i \in 1..Len(inbound) : inbound[i].t = "onUserMessage"
    THEN CHOOSE i \in 1..Len(inbound) :
            /\ inbound[i].t = "onUserMessage"
            /\ \A j \in 1..(i - 1) : inbound[j].t # "onUserMessage"
    ELSE Len(inbound) + 1

\* The user messages that arrived while no consumer was attached, in
\* arrival order.
BufferedArrivals ==
    LET frames == SelectSeq(SubSeq(inbound, 1, FirstAttach - 1), Carries)
    IN [i \in 1..Len(frames) |-> frames[i].content.c.value]

WasBuffered(d) == \E i \in 1..Len(BufferedArrivals) : BufferedArrivals[i] = d.message

MessagesOf(calls_) == [i \in 1..Len(calls_) |-> calls_[i].message]

\* C23: the user messages that arrived while no consumer was attached are,
\* in arrival order and once each, first those already handed to a consumer
\* and then those still in the queue (none dropped, duplicated, reordered);
\* and onUserMessage with a consumer that returns hands that consumer all
\* the queue, in order, and leaves the queue empty.
C23_BufferedInOrderOnce ==
    /\ [](MessagesOf(SelectSeq(delivered, WasBuffered)) \o pendingMessages
            = BufferedArrivals)
    /\ [][\A callback \in Consumers :
            onUserMessage(callback) /\ ~ConsumerThrows(callback)
            => /\ pendingMessages' = <<>>
               /\ delivered' = delivered \o
                    [i \in 1..Len(pendingMessages) |->
                        [to |-> callback, message |-> pendingMessages[i]]]]_vars

\* Three messages were buffered and then handed to the consumer attached
\* afterwards.
C23_Witness ==
    /\ Len(BufferedArrivals) = 3
    /\ pendingMessages = <<>>
    /\ MessagesOf(delivered) = BufferedArrivals
    /\ pendingMessageCallback = "cb1"

----------------------------------------------------------------------------
\* C24: with a consumer attached, a user message that arrives is handed to
\* that consumer in the same step and is not put in the queue, and no
\* message buffered earlier is still waiting in the queue at that moment.
C24_HandedAtArrival ==
    [][\A body \in Bodies(Len(inbound) + 1) :
        onUpdateBody(body) /\ Carries(body) /\ pendingMessageCallback # NoConsumer
        => /\ delivered' = Append(delivered, [to |-> pendingMessageCallback,
                                               message |-> body.content.c.value])
           /\ pendingMessages' = pendingMessages
           /\ pendingMessages = <<>>]_vars

----------------------------------------------------------------------------
\* C25: there is one consumer at a time: whatever a step hands over goes to
\* the consumer attached at the end of that step, earlier calls stay as they
\* were, and no message is handed over twice.
C25_OneConsumer ==
    /\ [](\A i, j \in 1..Len(delivered) :
            i # j => delivered[i].message # delivered[j].message)
    /\ [][/\ Len(delivered') >= Len(delivered)
          /\ SubSeq(delivered', 1, Len(delivered)) = delivered
          /\ \A i \in (Len(delivered) + 1)..Len(delivered') :
                delivered'[i].to = pendingMessageCallback']_vars

\* cb1 got a message, cb2 was attached in its place, and the message that
\* arrived after that went to cb2.
C25_Witness ==
    /\ Len(inbound) = 4
    /\ inbound[1] = [t |-> "onUserMessage", content |-> "cb1"]
    /\ Carries(inbound[2])
    /\ inbound[3] = [t |-> "onUserMessage", content |-> "cb2"]
    /\ Carries(inbound[4])
    /\ Len(delivered) = 2
    /\ delivered[1].to = "cb1"
    /\ delivered[2].to = "cb2"

----------------------------------------------------------------------------
----------------------------------------------------------------------------
\* A new-message whose wrapper holds text that is not JSON.
Unparsable(body) ==
    /\ body.t = "new-message"
    /\ body.content.t = "encrypted"
    /\ body.content.c.form = "bad"

\* C27: the update handler on a new-message whose wrapper does not parse
\* returns with the queue, the consumer, its calls, the 'message' events and
\* the documents as they were.
C27_BadWrapperDiscarded ==
    [][\A body \in Bodies(Len(inbound) + 1) :
        onUpdateBody(body) /\ Unparsable(body)
        => UNCHANGED <<pendingMessages, pendingMessageCallback, delivered,
                       messageEvents, docVars>>]_vars

\* After a frame that was discarded, a user message was handed to the
\* consumer and an agent message was emitted.
C27_Witness ==
    /\ Len(inbound) = 4
    /\ Unparsable(inbound[1])
    /\ inbound[2].t = "onUserMessage"
    /\ Carries(inbound[3])
    /\ MessagesOf(delivered) = <<inbound[3].content.c.value>>
    /\ messageEvents = <<Payload("agent", 4)>>

----------------------------------------------------------------------------
\* C28: a frame with a body takes one route. A new-message with a user
\* message goes to the consumer, or to the queue when there is none, and
\* emits nothing; a new-message with another payload is emitted once as a
\* 'message' event and leaves queue and consumer calls alone; an
\* update-machine changes nothing; a body of another type is emitted once;
\* an update-session leaves queue, consumer calls and events alone. None but
\* the update-session touches the documents.
C28_OneRoute ==
    /\ [][\A body \in Bodies(Len(inbound) + 1) :
            onUpdateBody(body) /\ body.t # "none" /\ ~Unparsable(body)
            => /\ UNCHANGED <<docVars, pendingMessageCallback>>
               /\ CASE Carries(body) ->
                        /\ messageEvents' = messageEvents
                        /\ IF pendingMessageCallback # NoConsumer
                           THEN /\ delivered' =
                                    Append(delivered, [to |-> pendingMessageCallback,
                                                       message |-> body.content.c.value])
                                /\ pendingMessages' = pendingMessages
                           ELSE /\ pendingMessages' =
                                    Append(pendingMessages, body.content.c.value)
                                /\ delivered' = delivered
                    [] body.t = "new-message" /\ ~Carries(body) ->
                        /\ messageEvents' = Append(messageEvents, body.content.c.value)
                        /\ UNCHANGED <<pendingMessages, delivered>>
                    [] body.t = "update-machine" ->
                        UNCHANGED <<pendingMessages, delivered, messageEvents>>
                    [] OTHER ->
                        /\ messageEvents' = Append(messageEvents, body)
                        /\ UNCHANGED <<pendingMessages, delivered>>]_vars
    /\ [][\A p \in pushes : onUpdate(p) => UNCHANGED msgVars]_vars

\* A user message is in the queue, an agent message and a body of another
\* type have been emitted, and an update-session has set the metadata.
C28_Witness ==
    /\ Len(pendingMessages) = 1
    /\ Len(messageEvents) = 2
    /\ \E i \in 1..Len(inbound) : inbound[i].t = "other"
    /\ \E i \in 1..Len(inbound) :
            inbound[i].t = "new-message" /\ inbound[i].content.c.value.role = "agent"
    /\ metadataVersion = 1

----------------------------------------------------------------------------
\* The sends of message content and usage.
ContentSends ==
    {"sendClaudeSessionMessage", "sendCodexMessage", "sendAgentMessage",
     "sendSessionEvent", "sendUsageData"}

\* The packets of call i that the socket holds or that reached the relay.
PacketsOf(i) ==
    {k \in 1..Len(sendBuffer) : sendBuffer[k].id = i}
    \cup {Len(sendBuffer) + k : k \in {j \in 1..Len(outbound) : outbound[j].id = i}}

\* C29: no packet of a content send made while the socket was not connected
\* is held by the socket or has reached the relay.
C29_SendWhileDownDropped ==
    \A i \in 1..Len(sent) :
        sent[i].method \in ContentSends /\ ~sent[i].live => PacketsOf(i) = {}

----------------------------------------------------------------------------
\* C30: no packet of a keepAlive made while the socket was not connected is
\* held by the socket or reaches the relay, and such a keepAlive changes
\* nothing but the history of calls.
C30_KeepAliveDiscarded ==
    /\ [](\A i \in 1..Len(sent) :
            sent[i].method = "keepAlive" /\ ~sent[i].live => PacketsOf(i) = {})
    /\ [][keepAlive /\ ~connected
          => UNCHANGED <<sendBuffer, outbound, syncVars, rpcVars, msgVars, scopeVars>>]_vars

\* A keepAlive was made while the socket was down, the socket has connected
\* again since, and a keepAlive made after that has reached the relay.
C30_Witness ==
    /\ Len(sent) = 2
    /\ sent[1] = [method |-> "keepAlive", live |-> FALSE]
    /\ sent[2] = [method |-> "keepAlive", live |-> TRUE]
    /\ connection = 2
    /\ Len(outbound) = 1
    /\ outbound[1].id = 2

----------------------------------------------------------------------------
\* C38: whenever a consumer is attached (onUserMessage has returned or
\* thrown, no drain is under way), the queue of pending messages is empty.
C38_AttachedMeansEmpty ==
    pendingMessageCallback # NoConsumer => pendingMessages = <<>>

----------------------------------------------------------------------------
\* The part is there, newer than the local version given, and parses.
Applies(part, version) ==
    part.present /\ part.version > version /\ ~ParseThrows(part.body)

\* C39: on an update-session frame, an agentState part that is absent or not
\* newer leaves agentState and its version alone while a metadata part that
\* is newer is adopted, and the other way round; a frame with no body leaves
\* documents, queue, consumer and events alone.
C39_PartsIndependent ==
    /\ [][\A p \in pushes \ pushes' :
            /\ ~(p.agentState.present /\ p.agentState.version > agentStateVersion)
                => /\ UNCHANGED <<agentState, agentStateVersion>>
                   /\ Applies(p.metadata, metadataVersion)
                        => /\ metadata' = MetadataOf(p.metadata.body)
                           /\ metadataVersion' = p.metadata.version
            /\ ~(p.metadata.present /\ p.metadata.version > metadataVersion)
                => /\ UNCHANGED <<metadata, metadataVersion>>
                   /\ Applies(p.agentState, agentStateVersion)
                        => /\ agentState' = AgentStateOf(p.agentState.body)
                           /\ agentStateVersion' = p.agentState.version]_vars
    /\ [][\A body \in Bodies(Len(inbound) + 1) :
            onUpdateBody(body) /\ body.t = "none"
            => UNCHANGED <<docVars, pendingMessages, pendingMessageCallback,
                           delivered, messageEvents>>]_vars

\* A frame carrying both documents has been handled: its metadata was
\* adopted, its agentState part, not newer, was left alone; the frame with
\* the metadata alone is still waiting.
C39_Witness ==
    /\ metadataVersion = 1
    /\ agentStateVersion = 0
    /\ agentState = NULL
    /\ lastEvent = StaleUpdate
    /\ pushes = {[metadata |-> [present |-> TRUE, version |-> 1,
                                body |-> Wire(relayForm, relay["metadata"].value)],
                  agentState |-> NoPart]}

----------------------------------------------------------------------------
\* C37: the marker is set only while the socket is connected: it is set by
\* a connect event only, it is clear after every disconnect and every
\* connect_error, and an rpc-register frame is emitted only with the socket
\* connected.
C37_MarkerOnlyWhileConnected ==
    /\ [](socket # NoSocket => connected)
    /\ [][/\ (socket = NoSocket /\ socket' # NoSocket) => (~connected /\ connected')
          /\ (connected /\ ~connected') => socket' = NoSocket
          /\ signals' # signals /\ ~connected' => socket' = NoSocket
          /\ emitted' # emitted => connected']_vars

\* The connection has dropped and come back; the handler registered while
\* it was down was announced on the second connection only.
C37_Witness ==
    /\ connected
    /\ socket = TheSocket
    /\ connection = 2
    /\ Len(handlers) = 1
    /\ Len(emitted) = 1
    /\ emitted[1].connection = 2

----------------------------------------------------------------------------
\* C34: every attempt of an update, the first and each retry, sends the
\* handler applied to the local value of that moment together with the local
\* version of that moment, and the local document does not change in the
\* step that computes and sends.
C34_AttemptFromCurrent ==
    [][\A c \in Calls :
        calls[c].pc \in {"running", "delay"} /\ calls'[c].pc = "awaiting"
        => /\ calls'[c].expectedVersion = LocalVersion(calls[c].kind)
           /\ calls'[c].updated = JSONstringify(KeysOf(LocalValue(calls[c].kind)) \cup {c})
           /\ UNCHANGED docVars]_vars

\* A retry is on its way whose candidate holds the key another client wrote
\* after the first attempt was made.
C34_Witness ==
    \E c \in Calls :
        /\ calls[c].pc = "awaiting"
        /\ Cardinality(trace[c].bases) = 2
        /\ calls[c].expectedVersion = 1
        /\ calls[c].updated.value = {c, RemoteKey(1)}

----------------------------------------------------------------------------
\* C35: in every state the local value and the local version of each
\* document are a value and a version that the relay held together.
C35_PairIssuedTogether ==
    \A k \in Kinds :
        [kind |-> k, version |-> LocalVersion(k), value |-> LocalValue(k)] \in issued

\* C36: no update call has more than one write accepted by the relay, and a
\* call that has finished has exactly one.
C36_OneAcceptedWrite ==
    \A c \in Calls : \A k \in Kinds :
        LET writes == {i \in 1..Len(accepted[k]) : accepted[k][i] = c} IN
        /\ Cardinality(writes) <= 1
        /\ calls[c].pc = "done" /\ calls[c].kind = k => Cardinality(writes) = 1

----------------------------------------------------------------------------
\* C31: the promise of a flush is pending or resolved, never rejected; every
\* flush is resolved eventually, whatever the connection does; a flush on a
\* socket that is not connected is resolved at once; and the promise is
\* resolved in the step in which the acknowledgement arrives or the timer
\* fires, whichever comes first.
C31_FlushResolves ==
    /\ [](\A i \in 1..Len(flushes) : flushes[i].pc \in {"pending", "resolved"})
    /\ \A i \in 1..MaxEvents :
            (Len(flushes) >= i) ~> (Len(flushes) >= i /\ flushes[i].pc = "resolved")
    /\ [][/\ flush /\ ~connected => flushes'[Len(flushes')].pc = "resolved"
          /\ \A i \in 1..Len(flushes) :
                flushes'[i] # flushes[i] /\ flushes[i].pc = "pending"
                => /\ flushes'[i].pc = "resolved"
                   /\ flushes'[i].by = IF flushes'[i].ping # flushes[i].ping
                                       THEN "ack" ELSE "timer"]_vars

\* Three flushes are resolved: one called while the socket was down, one by
\* its acknowledgement, one by its timer after the connection had dropped.
C31_Witness ==
    /\ ~connected
    /\ \E i, j, k \in 1..Len(flushes) :
            /\ flushes[i].by = "return"
            /\ flushes[j].by = "ack"
            /\ flushes[k].by = "timer"
            /\ flushes[k].ping = "sent"

----------------------------------------------------------------------------
\* C33: every call of sendClaudeSessionMessage with a summary message
\* enqueues one metadata update, whether the socket is connected or not.
C33_SummaryEnqueuesUpdate ==
    [][sendClaudeSessionMessage("summary") => Len(enqueued') = Len(enqueued) + 1]_vars

----------------------------------------------------------------------------
\* C40: a run of authAndSetupMachineIfNeeded that reuses the stored
\* credentials or refreshes them, with a machine ID stored, returns and
\* keeps that ID; the machine ID changes only in a run that returns and
\* that has logged in (no credentials were stored, or the refresh failed)
\* or found no machine ID; a run whose login returns no credentials throws
\* and leaves the machine ID as it was.
C40_MachineIdKept ==
    [][authLog' # authLog =>
        LET run == authLog'[Len(authLog')] IN
        /\ run.login = "none"
           <=> run.stored = "valid" \/ (run.stored = "expired" /\ run.refreshed)
        /\ run.login = "none" /\ machineId # NoMachineId
           => ~run.threw /\ machineId' = machineId
        /\ machineId' # machineId
           => /\ ~run.threw
              /\ run.login = "credentials" \/ machineId = NoMachineId
              /\ machineId' # NoMachineId
        /\ run.login = "null" => run.threw /\ machineId' = machineId]_vars

\* Three runs: the stored credentials are reused and the ID is kept; the
\* token has expired, the refresh fails and the login returns nothing; the
\* refresh fails again, the login succeeds and a new ID is stored.
C40_Witness ==
    /\ Len(authLog) = 3
    /\ authLog[1] = [stored |-> "valid", refreshed |-> FALSE, login |-> "none", threw |-> FALSE]
    /\ authLog[2] = [stored |-> "expired", refreshed |-> FALSE, login |-> "null", threw |-> TRUE]
    /\ authLog[3] = [stored |-> "expired", refreshed |-> FALSE, login |-> "credentials", threw |-> FALSE]
    /\ machineId = 4
    /\ credentials = "valid"

----------------------------------------------------------------------------
\* C32: while the socket is not connected and close() has not been called,
\* the manager is trying to connect, however many attempts have failed, and
\* from every such state the socket is eventually connected again, unless
\* close() is called.
C32_ReconnectsWithoutLimit ==
    /\ [](~connected /\ ~closed => Reconnecting)
    /\ (~connected /\ ~closed) ~> (connected \/ closed)

====
